---- MODULE Spec2Model ----
(***************************************************************************)
(* Indoor routing engine of maplibra_map: AStar, PathfindingEngine,        *)
(* CollisionDetector, PathCache and the NavigationController wrapper.      *)
(*                                                                         *)
(* Geometry.  The engine works on [lng, lat] pairs and calls turf for      *)
(* distances and intersections.  The model places every coordinate on one  *)
(* straight axis per floor and writes it as a whole number of metres along *)
(* that axis; turf.distance of two coordinates is then the absolute        *)
(* difference, a polygon is an interval [lo, hi] and the points where a    *)
(* segment crosses a polygon's boundary are the interval ends lying on the *)
(* segment.  Node ids are numbers whose order is the string order of the   *)
(* ids in the program.                                                     *)
(***************************************************************************)
EXTENDS Integers, Sequences, FiniteSets, TLC

VARIABLES
    graph,                 \* engine.graph: nodes, their insertion order, edge lists
    collisionDetector,     \* engine.collisionDetector: obstacles and door segments
    roomIndex,             \* engine.roomIndex: floor -> rooms
    roomDoorIndex,         \* engine.roomDoorIndex: room -> door nodes
    roomMeta,              \* engine.roomMeta: room -> area and door counts
    doorNodes,             \* engine.doorNodes
    walkableNodesByFloor,  \* engine.walkableNodesByFloor
    initialized,           \* engine.initialized
    lastRouteError,        \* engine.lastRouteError
    pathCache,             \* engine.pathCache.cache, oldest entry first
    building,              \* the data set handed to initialize
    ret,                   \* what the last findRoute call did and returned
    calls,                 \* findRoute calls made so far
    aq,                    \* the findPath call under way: startNodeId, endNodeId, options
    astar,                 \* the local state of that findPath call (open set, closed set, ...)
    controller,            \* NavigationController: initialized, and where its initialize stands
    build,                 \* the engine's initialize call suspended in the edge build, if any
    edgeStore              \* the visibility_edges store: cache key -> edges

engineVars == <<graph, collisionDetector, roomIndex, roomDoorIndex, roomMeta, doorNodes,
                walkableNodesByFloor, initialized, lastRouteError, pathCache>>

vars == <<graph, collisionDetector, roomIndex, roomDoorIndex, roomMeta, doorNodes,
          walkableNodesByFloor, initialized, lastRouteError, pathCache,
          building, ret, calls, aq, astar, controller, build, edgeStore>>

lifeVars == <<controller, build, edgeStore>>

-----------------------------------------------------------------------------
(* Small helpers *)

Abs(x) == IF x < 0 THEN -x ELSE x

Range(s) == {s[i] : i \in DOMAIN s}

\* turf.distance(a, b, {units: 'meters'}) for two coordinates on the axis
Dist(a, b) == Abs(a - b)

\* a Map: a function whose DOMAIN is the key set
MapHas(m, k) == k \in DOMAIN m
MapSet(m, k, v) == [x \in (DOMAIN m) \cup {k} |-> IF x = k THEN v ELSE m[x]]
EmptyMap == [x \in {} |-> 0]

-----------------------------------------------------------------------------
(* Graph (core/Graph.js).  A node is one record: the fields of node.metadata *)
(* the engine reads (type, geometryIds, isDoor, isLocked, isPublic,          *)
(* isStairs, isElevator, roomIds) stand beside id, coords and floorId.       *)

\* no node, no room, no error
Null == 0
NoRoom == ""
NoError == "null"

RECURSIVE FoldLeft(_, _, _)
FoldLeft(Op(_, _), acc, s) ==
    IF s = <<>> THEN acc ELSE FoldLeft(Op, Op(acc, s[1]), Tail(s))

NewGraph == [nodes |-> EmptyMap, edges |-> EmptyMap, order |-> <<>>]

getNode(G, id) == G.nodes[id]
hasNode(G, id) == id \in DOMAIN G.nodes
getEdges(G, id) == IF id \in DOMAIN G.edges THEN G.edges[id] ELSE <<>>

newNode(id, coords, floorId, type, geometryIds) ==
    [ id |-> id, coords |-> coords, floorId |-> floorId, type |-> type,
      geometryIds |-> geometryIds,
      isDoor |-> FALSE, isLocked |-> FALSE, isPublic |-> FALSE,
      isStairs |-> FALSE, isElevator |-> FALSE, roomIds |-> <<>> ]

addNode(G, node) ==
    [ nodes |-> MapSet(G.nodes, node.id, node),
      edges |-> IF MapHas(G.edges, node.id) THEN G.edges ELSE MapSet(G.edges, node.id, <<>>),
      order |-> IF MapHas(G.nodes, node.id) THEN G.order ELSE Append(G.order, node.id) ]

newEdge(to, weight, type, accessible) ==
    [target |-> to, weight |-> weight, type |-> type, accessible |-> accessible]

addEdge(G, from, to, weight, type, accessible) ==
    [G EXCEPT !.edges = MapSet(@, from,
                               Append(getEdges(G, from), newEdge(to, weight, type, accessible)))]

addBidirectionalEdge(G, a, b, weight, type, accessible) ==
    addEdge(addEdge(G, a, b, weight, type, accessible), b, a, weight, type, accessible)

\* the nodes of one floor, in insertion order
getNodesOnFloor(G, floorId) ==
    LET ids == SelectSeq(G.order, LAMBDA id : G.nodes[id].floorId = floorId)
    IN [i \in DOMAIN ids |-> G.nodes[ids[i]]]

getNodeByGeometryId(G, geometryId) ==
    LET ids == SelectSeq(G.order, LAMBDA id : geometryId \in Range(G.nodes[id].geometryIds))
    IN IF ids = <<>> THEN Null ELSE ids[1]

\* the first node of the sequence at least distance from coords
nearestOf(nodes, coords) ==
    IF nodes = <<>> THEN Null
    ELSE LET i == CHOOSE i \in DOMAIN nodes :
                     /\ \A j \in DOMAIN nodes :
                           Dist(nodes[i].coords, coords) <= Dist(nodes[j].coords, coords)
                     /\ \A j \in 1..(i - 1) :
                           Dist(nodes[j].coords, coords) > Dist(nodes[i].coords, coords)
         IN nodes[i].id

findNearestNode(G, coords, floorId) == nearestOf(getNodesOnFloor(G, floorId), coords)

findNearestNodeExpanded(G, coords, floorId) == nearestOf(getNodesOnFloor(G, floorId), coords)

\* nodes ordered by distance from coords, nearest first, ties in the order given
RECURSIVE byDistance(_, _)
byDistance(nodes, coords) ==
    IF nodes = <<>> THEN <<>>
    ELSE LET id == nearestOf(nodes, coords)
         IN <<CHOOSE n \in Range(nodes) : n.id = id>>
               \o byDistance(SelectSeq(nodes, LAMBDA n : n.id # id), coords)

\* 0.002 degrees, in metres
MetersPerDegree == 111320
NearbyRadiusMilliDegrees == 2
NearbyLimit == 10

findNearestNodesInRadius(G, coords, floorId, radiusMilliDegrees, limit) ==
    LET inRadius == SelectSeq(getNodesOnFloor(G, floorId),
                              LAMBDA n : 1000 * Dist(n.coords, coords)
                                            <= radiusMilliDegrees * MetersPerDegree)
        sorted == byDistance(inRadius, coords)
    IN SubSeq(sorted, 1, IF Len(sorted) < limit THEN Len(sorted) ELSE limit)

-----------------------------------------------------------------------------
(* MinHeap (AStar.js): a binary heap kept in an array; positions here are  *)
(* 1-based, so the parent of i is i \div 2 and its children 2i and 2i+1.   *)

Swap(h, i, j) == [h EXCEPT ![i] = h[j], ![j] = h[i]]

RECURSIVE bubbleUp(_, _)
bubbleUp(h, index) ==
    IF index <= 1 THEN h
    ELSE LET parentIndex == index \div 2 IN
         IF h[index].priority >= h[parentIndex].priority THEN h
         ELSE bubbleUp(Swap(h, index, parentIndex), parentIndex)

RECURSIVE bubbleDown(_, _)
bubbleDown(h, index) ==
    LET leftChild == 2 * index
        rightChild == 2 * index + 1
        s1 == IF leftChild <= Len(h) /\ h[leftChild].priority < h[index].priority
              THEN leftChild ELSE index
        smallest == IF rightChild <= Len(h) /\ h[rightChild].priority < h[s1].priority
                    THEN rightChild ELSE s1
    IN IF smallest = index THEN h
       ELSE bubbleDown(Swap(h, index, smallest), smallest)

push(h, item) == bubbleUp(Append(h, item), Len(h) + 1)

\* pop is used on a non-empty heap only: <<the minimum, the heap left>>
pop(h) ==
    IF Len(h) = 1 THEN <<h[1], <<>>>>
    ELSE <<h[1], bubbleDown([SubSeq(h, 1, Len(h) - 1) EXCEPT ![1] = h[Len(h)]], 1)>>

-----------------------------------------------------------------------------
(* AStar.findPath                                                          *)

FloorPenalty == 10

heuristic(nodeA, nodeB) ==
    Dist(nodeA.coords, nodeB.coords)
        + (IF nodeA.floorId # nodeB.floorId THEN FloorPenalty ELSE 0)

\* options.nodeFilter: absent, or a predicate.  A predicate is written as the
\* pair (ids the caller's own filter rejects, whether locked doors are rejected).
NoFilter == [present |-> FALSE, reject |-> {}, lockedDoors |-> FALSE]

nodeFilter(opts, node) ==
    IF ~opts.nodeFilter.present THEN TRUE
    ELSE IF node.id \in opts.nodeFilter.reject THEN FALSE
    ELSE IF opts.nodeFilter.lockedDoors /\ node.isDoor /\ node.isLocked THEN FALSE
    ELSE TRUE

isRoomAllowed(opts, node) ==
    IF ~opts.disallowOtherRooms THEN TRUE
    ELSE IF node.isElevator \/ node.isStairs \/ node.isDoor THEN TRUE
    ELSE IF node.roomIds = <<>> THEN TRUE
    ELSE IF opts.allowedRoomIds = {} THEN TRUE
    ELSE \E i \in DOMAIN node.roomIds : node.roomIds[i] \in opts.allowedRoomIds

isNodeAllowed(opts, node) ==
    IF ~nodeFilter(opts, node) THEN FALSE ELSE isRoomAllowed(opts, node)

\* edgePasses with the accessibleOnly test left out
edgePassesStairsOnly(opts, edge) ==
    ~(opts.avoidStairs /\ edge.type = "stairs")

\* the edge filters at the top of the neighbour loop
edgePasses(opts, edge) ==
    /\ ~(opts.accessibleOnly /\ ~edge.accessible)
    /\ ~(opts.avoidStairs /\ edge.type = "stairs")

\* gScore.get(id) || Infinity, compared with tentativeG
betterThanKnown(gScore, id, tentativeG) ==
    IF MapHas(gScore, id) /\ gScore[id] # 0 THEN tentativeG < gScore[id] ELSE TRUE

findPathInit(G, startNodeId, endNodeId) ==
    LET h == heuristic(getNode(G, startNodeId), getNode(G, endNodeId)) IN
    [ openSet   |-> push(<<>>, [nodeId |-> startNodeId, priority |-> h]),
      closedSet |-> {},
      gScore    |-> MapSet(EmptyMap, startNodeId, 0),
      cameFrom  |-> EmptyMap,
      via       |-> EmptyMap,      \* observation: the edge that set cameFrom
      expanded  |-> <<>>,          \* observation: the nodes expanded, in order
      done      |-> FALSE,
      found     |-> FALSE ]

\* the body of `for (const edge of edges)` for one edge
relaxEdge(G, endNodeId, opts, st, currentId, edge) ==
    IF ~edgePasses(opts, edge) THEN st
    ELSE IF edge.target \in st.closedSet THEN st
    ELSE IF ~hasNode(G, edge.target) THEN st
    ELSE IF ~isNodeAllowed(opts, getNode(G, edge.target)) THEN st
    ELSE LET neighborId == edge.target
             tentativeG == st.gScore[currentId] + edge.weight
         IN IF betterThanKnown(st.gScore, neighborId, tentativeG)
            THEN LET h == heuristic(getNode(G, neighborId), getNode(G, endNodeId))
                              * opts.heuristicWeight
                 IN [st EXCEPT !.cameFrom = MapSet(@, neighborId, currentId),
                               !.via = MapSet(@, neighborId, edge),
                               !.gScore = MapSet(@, neighborId, tentativeG),
                               !.openSet = push(@, [nodeId |-> neighborId,
                                                    priority |-> tentativeG + h])]
            ELSE st

RECURSIVE relaxEdges(_, _, _, _, _, _, _)
relaxEdges(G, endNodeId, opts, st, currentId, edges, i) ==
    IF i > Len(edges) THEN st
    ELSE relaxEdges(G, endNodeId, opts,
                    relaxEdge(G, endNodeId, opts, st, currentId, edges[i]),
                    currentId, edges, i + 1)

\* alreadyProcessed with the closed set never consulted
alreadyProcessedNever(st, currentId) == FALSE

\* the closed-set test on the node just popped
alreadyProcessed(st, currentId) == currentId \in st.closedSet

\* one iteration of `while (!openSet.isEmpty())`
findPathIter(G, endNodeId, opts, st) ==
    IF st.openSet = <<>> THEN [st EXCEPT !.done = TRUE, !.found = FALSE]
    ELSE LET p == pop(st.openSet)
             currentId == p[1].nodeId
             st1 == [st EXCEPT !.openSet = p[2]]
         IN IF currentId = endNodeId THEN [st1 EXCEPT !.done = TRUE, !.found = TRUE]
            ELSE IF alreadyProcessed(st1, currentId) THEN st1
            ELSE relaxEdges(G, endNodeId, opts,
                            [st1 EXCEPT !.closedSet = @ \cup {currentId},
                                        !.expanded = Append(@, currentId)],
                            currentId, getEdges(G, currentId), 1)

RECURSIVE reconstructIds(_, _)
reconstructIds(cameFrom, current) ==
    IF MapHas(cameFrom, current)
    THEN Append(reconstructIds(cameFrom, cameFrom[current]), current)
    ELSE <<current>>

NoPath == [found |-> FALSE, nodeIds |-> <<>>, coords |-> <<>>, floors |-> <<>>,
           distance |-> 0, segments |-> <<>>, steps |-> <<>>, expanded |-> <<>>]

\* one segment of a path: from and to are node ids
newSegment(from, to, fromCoords, toCoords, fromFloor, toFloor) ==
    [ from |-> from, to |-> to, fromCoords |-> fromCoords, toCoords |-> toCoords,
      distance |-> Dist(fromCoords, toCoords), floorChange |-> fromFloor # toFloor,
      fromFloor |-> fromFloor, toFloor |-> toFloor ]

buildSegments(nodes) ==
    [ i \in 1..(Len(nodes) - 1) |->
        newSegment(nodes[i].id, nodes[i + 1].id, nodes[i].coords, nodes[i + 1].coords,
                nodes[i].floorId, nodes[i + 1].floorId) ]

\* reconstructPath keeping one floor for each step instead of one for each node
reconstructPathFloorPerStep(G, st, currentId) ==
    LET path == reconstructIds(st.cameFrom, currentId) IN
    [ found    |-> TRUE,
      nodeIds  |-> path,
      coords   |-> [i \in DOMAIN path |-> getNode(G, path[i]).coords],
      floors   |-> [i \in 1..(Len(path) - 1) |-> getNode(G, path[i]).floorId],
      distance |-> st.gScore[currentId],
      segments |-> buildSegments([i \in DOMAIN path |-> getNode(G, path[i])]),
      steps    |-> [i \in 1..(Len(path) - 1) |-> st.via[path[i + 1]]],
      expanded |-> st.expanded ]

reconstructPath(G, st, currentId) ==
    LET path == reconstructIds(st.cameFrom, currentId) IN
    [ found    |-> TRUE,
      nodeIds  |-> path,
      coords   |-> [i \in DOMAIN path |-> getNode(G, path[i]).coords],
      floors   |-> [i \in DOMAIN path |-> getNode(G, path[i]).floorId],
      distance |-> st.gScore[currentId],
      segments |-> buildSegments([i \in DOMAIN path |-> getNode(G, path[i])]),
      steps    |-> [i \in 1..(Len(path) - 1) |-> st.via[path[i + 1]]],
      expanded |-> st.expanded ]

\* what findPath returns once the loop has ended
findPathResult(G, endNodeId, st) ==
    IF st.found THEN reconstructPath(G, st, endNodeId)
    ELSE [NoPath EXCEPT !.expanded = st.expanded]

RECURSIVE findPathLoop(_, _, _, _)
findPathLoop(G, endNodeId, opts, st) ==
    IF st.done THEN findPathResult(G, endNodeId, st)
    ELSE findPathLoop(G, endNodeId, opts, findPathIter(G, endNodeId, opts, st))

findPath(G, startNodeId, endNodeId, opts) ==
    IF ~hasNode(G, startNodeId) \/ ~hasNode(G, endNodeId) THEN NoPath
    ELSE findPathLoop(G, endNodeId, opts, findPathInit(G, startNodeId, endNodeId))

-----------------------------------------------------------------------------
(* AStar.findPathBidirectional.  The two searches are the records forward  *)
(* and backward of their open heap, closed set, g map and cameFrom map;     *)
(* bestDistance is read only while meetingNode is set (it is Infinity       *)
(* before).                                                                 *)

\* isRoomAllowed as findPathBidirectional declares it
isRoomAllowedBidirectional(opts, node) ==
    IF ~opts.disallowOtherRooms THEN TRUE
    ELSE IF node.roomIds = <<>> THEN TRUE
    ELSE IF opts.allowedRoomIds = {} THEN FALSE
    ELSE \E i \in DOMAIN node.roomIds : node.roomIds[i] \in opts.allowedRoomIds

isNodeAllowedBidirectional(opts, node) ==
    IF ~nodeFilter(opts, node) THEN FALSE ELSE isRoomAllowedBidirectional(opts, node)

newSearch(G, fromId, toId) ==
    [ open     |-> push(<<>>, [nodeId |-> fromId,
                               priority |-> heuristic(getNode(G, fromId), getNode(G, toId))]),
      closed   |-> {},
      g        |-> MapSet(EmptyMap, fromId, 0),
      cameFrom |-> EmptyMap ]

findPathBidirectionalInit(G, startNodeId, endNodeId) ==
    [ forward      |-> newSearch(G, startNodeId, endNodeId),
      backward     |-> newSearch(G, endNodeId, startNodeId),
      bestDistance |-> 0,
      meetingNode  |-> Null,
      done         |-> FALSE ]

\* the body of `for (const edge of edges)` of either search for one edge
relaxEdgeBidirectional(G, goalId, opts, side, currentId, edge) ==
    IF ~edgePasses(opts, edge) THEN side
    ELSE IF edge.target \in side.closed THEN side
    ELSE IF ~hasNode(G, edge.target) THEN side
    ELSE IF ~isNodeAllowedBidirectional(opts, getNode(G, edge.target)) THEN side
    ELSE LET neighborId == edge.target
             tentativeG == side.g[currentId] + edge.weight
         IN IF betterThanKnown(side.g, neighborId, tentativeG)
            THEN LET h == heuristic(getNode(G, neighborId), getNode(G, goalId))
                              * opts.heuristicWeight
                 IN [side EXCEPT !.cameFrom = MapSet(@, neighborId, currentId),
                                 !.g = MapSet(@, neighborId, tentativeG),
                                 !.open = push(@, [nodeId |-> neighborId,
                                                   priority |-> tentativeG + h])]
            ELSE side

RECURSIVE relaxEdgesBidirectional(_, _, _, _, _, _, _)
relaxEdgesBidirectional(G, goalId, opts, side, currentId, edges, i) ==
    IF i > Len(edges) THEN side
    ELSE relaxEdgesBidirectional(G, goalId, opts,
                                 relaxEdgeBidirectional(G, goalId, opts, side, currentId,
                                                        edges[i]),
                                 currentId, edges, i + 1)

\* `Expand forward` (dir = "forward", other = "backward") or `Expand backward`
expand(G, goalId, opts, st, dir, other) ==
    IF st[dir].open = <<>> THEN st
    ELSE LET p == pop(st[dir].open)
             currentId == p[1].nodeId
         IN IF currentId \in st[dir].closed THEN [st EXCEPT ![dir].open = p[2]]
            ELSE LET met == currentId \in st[other].closed
                     better == /\ met
                               /\ \/ st.meetingNode = Null
                                  \/ st[dir].g[currentId] + st[other].g[currentId]
                                        < st.bestDistance
                 IN [st EXCEPT
                        ![dir] = relaxEdgesBidirectional(
                                     G, goalId, opts,
                                     [@ EXCEPT !.open = p[2], !.closed = @ \cup {currentId}],
                                     currentId, getEdges(G, currentId), 1),
                        !.bestDistance = IF better
                                         THEN st[dir].g[currentId] + st[other].g[currentId]
                                         ELSE @,
                        !.meetingNode = IF better THEN currentId ELSE @]

\* open.heap[0]?.priority || Infinity is Infinity
minIsInfinity(open) == open = <<>> \/ open[1].priority = 0

\* the early termination test at the end of a turn of the loop
terminatesEarly(st) ==
    /\ st.meetingNode # Null
    /\ \/ minIsInfinity(st.forward.open)
       \/ minIsInfinity(st.backward.open)
       \/ st.bestDistance <= st.forward.open[1].priority + st.backward.open[1].priority

\* the end of a turn: break, or the loop condition
turnEnded(st) ==
    [st EXCEPT !.done = \/ terminatesEarly(st)
                        \/ (st.forward.open = <<>> /\ st.backward.open = <<>>)]

\* one turn of `while (!forwardOpen.isEmpty() || !backwardOpen.isEmpty())`
findPathBidirectionalIter(G, startNodeId, endNodeId, opts, st) ==
    turnEnded(expand(G, startNodeId, opts,
                     expand(G, endNodeId, opts, st, "forward", "backward"),
                     "backward", "forward"))

RECURSIVE forwardPathOf(_, _, _)
forwardPathOf(forwardCameFrom, current, startId) ==
    IF current # startId /\ MapHas(forwardCameFrom, current)
    THEN Append(forwardPathOf(forwardCameFrom, forwardCameFrom[current], startId), current)
    ELSE <<startId>>

RECURSIVE backwardPathOf(_, _, _)
backwardPathOf(backwardCameFrom, current, endId) ==
    IF current # endId /\ MapHas(backwardCameFrom, current)
    THEN <<backwardCameFrom[current]>>
            \o backwardPathOf(backwardCameFrom, backwardCameFrom[current], endId)
    ELSE <<>>

reconstructBidirectionalPath(G, forwardCameFrom, backwardCameFrom, meetingNode, startId, endId, distance) ==
    LET fullPath == forwardPathOf(forwardCameFrom, meetingNode, startId)
                       \o backwardPathOf(backwardCameFrom, meetingNode, endId)
    IN [ found       |-> TRUE,
         nodeIds     |-> fullPath,
         coords      |-> [i \in DOMAIN fullPath |-> getNode(G, fullPath[i]).coords],
         floors      |-> [i \in DOMAIN fullPath |-> getNode(G, fullPath[i]).floorId],
         distance    |-> distance,
         segments    |-> buildSegments([i \in DOMAIN fullPath |-> getNode(G, fullPath[i])]),
         meetingNode |-> meetingNode ]     \* observation: where the searches met

NoPathBidirectional ==
    [ found |-> FALSE, nodeIds |-> <<>>, coords |-> <<>>, floors |-> <<>>, distance |-> 0,
      segments |-> <<>>, meetingNode |-> Null ]

RECURSIVE findPathBidirectionalLoop(_, _, _, _, _)
findPathBidirectionalLoop(G, startNodeId, endNodeId, opts, st) ==
    IF ~st.done
    THEN findPathBidirectionalLoop(G, startNodeId, endNodeId, opts,
             findPathBidirectionalIter(G, startNodeId, endNodeId, opts, st))
    ELSE IF st.meetingNode = Null THEN NoPathBidirectional
    ELSE reconstructBidirectionalPath(G, st.forward.cameFrom, st.backward.cameFrom,
                                      st.meetingNode, startNodeId, endNodeId, st.bestDistance)

findPathBidirectional(G, startNodeId, endNodeId, opts) ==
    IF ~hasNode(G, startNodeId) \/ ~hasNode(G, endNodeId) THEN NoPathBidirectional
    ELSE findPathBidirectionalLoop(G, startNodeId, endNodeId, opts,
                                   findPathBidirectionalInit(G, startNodeId, endNodeId))

-----------------------------------------------------------------------------
(* CollisionDetector.  An obstacle and a door segment are intervals of the  *)
(* axis held in tenths of a metre, so that the 0.5 m wall buffer and the    *)
(* 0.6 m door tolerance keep their sizes.  A geometry feature is a record   *)
(* [id, floorId, type, lo, hi, area] with lo and hi in metres.              *)

WallBufferTenths == 5
DoorToleranceTenths == 6
ShortPathMeters == 2
MediumPathMeters == 10

NewCollisionDetector == [obstacles |-> EmptyMap, doorSegments |-> EmptyMap]

\* push onto the list a Map keeps under key k
MapPush(m, k, v) == MapSet(m, k, Append(IF MapHas(m, k) THEN m[k] ELSE <<>>, v))

\* CollisionDetector.initialize, one feature of geometry.features
addObstacle(cd, feature, nonwalkableData, kindsData) ==
    LET isWall == MapHas(kindsData, feature.id) /\ kindsData[feature.id] = "wall"
        isNonwalkable == feature.id \in nonwalkableData
    IN IF feature.floorId = "" THEN cd
       ELSE IF ~(isWall \/ isNonwalkable) THEN cd
       ELSE LET listed == [cd EXCEPT !.obstacles =
                              IF MapHas(@, feature.floorId) THEN @
                              ELSE MapSet(@, feature.floorId, <<>>)]
            IN IF feature.type = "LineString"
               THEN [listed EXCEPT !.obstacles = MapPush(@, feature.floorId,
                        [lo |-> 10 * feature.lo - WallBufferTenths,
                         hi |-> 10 * feature.hi + WallBufferTenths])]
               ELSE IF feature.type = "Polygon"
               THEN [listed EXCEPT !.obstacles = MapPush(@, feature.floorId,
                        [lo |-> 10 * feature.lo, hi |-> 10 * feature.hi])]
               ELSE listed

collisionInitialize(cd, geometry, nonwalkableData, kindsData) ==
    FoldLeft(LAMBDA acc, feature : addObstacle(acc, feature, nonwalkableData, kindsData),
             cd, geometry)

setDoorSegments(cd, doorSegmentsByFloor) == [cd EXCEPT !.doorSegments = doorSegmentsByFloor]

\* turf.pointToLineDistance, in tenths of a metre, of a point given in tenths
pointToLineDistance(p, segment) ==
    IF p < 10 * segment.lo THEN 10 * segment.lo - p
    ELSE IF p > 10 * segment.hi THEN p - 10 * segment.hi
    ELSE 0

isIntersectionAtDoor(cd, p, floorId) ==
    IF ~MapHas(cd.doorSegments, floorId) THEN FALSE
    ELSE \E i \in DOMAIN cd.doorSegments[floorId] :
            pointToLineDistance(p, cd.doorSegments[floorId][i]) <= DoorToleranceTenths

\* turf.lineIntersect(line, polygon): the boundary points of the polygon on the line
lineIntersect(start, end, obstacle) ==
    LET a == IF start <= end THEN 10 * start ELSE 10 * end
        b == IF start <= end THEN 10 * end ELSE 10 * start
    IN {p \in {obstacle.lo, obstacle.hi} : a <= p /\ p <= b}

lineIntersectsObstacleAnyDoor(cd, start, end, floorId) ==
    IF ~MapHas(cd.obstacles, floorId) THEN FALSE
    ELSE \E i \in DOMAIN cd.obstacles[floorId] :
            LET intersection == lineIntersect(start, end, cd.obstacles[floorId][i])
            IN /\ intersection # {}
               /\ ~(\E p \in intersection : isIntersectionAtDoor(cd, p, floorId))

lineIntersectsObstacle(cd, start, end, floorId) ==
    IF ~MapHas(cd.obstacles, floorId) THEN FALSE
    ELSE \E i \in DOMAIN cd.obstacles[floorId] :
            LET intersection == lineIntersect(start, end, cd.obstacles[floorId][i])
            IN /\ intersection # {}
               /\ ~(\A p \in intersection : isIntersectionAtDoor(cd, p, floorId))

pointInObstacle(cd, coords, floorId) ==
    IF ~MapHas(cd.obstacles, floorId) THEN FALSE
    ELSE IF isIntersectionAtDoor(cd, 10 * coords, floorId) THEN FALSE
    ELSE \E i \in DOMAIN cd.obstacles[floorId] :
            /\ cd.obstacles[floorId][i].lo <= 10 * coords
            /\ 10 * coords <= cd.obstacles[floorId][i].hi

isPathClear(cd, startCoords, endCoords, floorId) ==
    IF pointInObstacle(cd, startCoords, floorId) \/ pointInObstacle(cd, endCoords, floorId)
    THEN FALSE
    ELSE ~lineIntersectsObstacle(cd, startCoords, endCoords, floorId)

isPathClearRelaxedEndsChecked(cd, startCoords, endCoords, floorId) ==
    LET distMeters == Dist(startCoords, endCoords) IN
    IF distMeters < ShortPathMeters THEN TRUE
    ELSE isPathClear(cd, startCoords, endCoords, floorId)

isPathClearRelaxed(cd, startCoords, endCoords, floorId) ==
    LET distMeters == Dist(startCoords, endCoords) IN
    IF distMeters < ShortPathMeters THEN TRUE
    ELSE IF distMeters < MediumPathMeters
    THEN ~lineIntersectsObstacle(cd, startCoords, endCoords, floorId)
    ELSE isPathClear(cd, startCoords, endCoords, floorId)

-----------------------------------------------------------------------------
(* PathCache (features/PathEnhancements.js).  The Map is the sequence of    *)
(* its entries [key, value] in insertion order.  The options of a query:    *)
(* useCache and snapToDoors are FALSE only when the caller passed false,    *)
(* roomTraversalMode = "" and a negative publicRoomDoorCount or             *)
(* publicRoomArea stand for an option the caller left out.                  *)

PathCacheMaxSize == 100
RoundScale == 10000

\* Math.round(c * 10000) of the coordinate that lies x metres along the axis
roundCoord(x) == (2 * x * RoundScale + MetersPerDegree) \div (2 * MetersPerDegree)

generateKey(startCoords, endCoords, startFloorId, endFloorId, options) ==
    LET baseKey == IF options.accessibleOnly THEN "acc" ELSE "std"
        roomMode == IF options.roomTraversalMode # "" THEN options.roomTraversalMode
                    ELSE IF options.disallowOtherRooms THEN "strict" ELSE "all"
        roomDoorCount == IF options.publicRoomDoorCount >= 0
                         THEN options.publicRoomDoorCount ELSE -1
        roomArea == IF options.publicRoomArea >= 0 THEN options.publicRoomArea ELSE -1
    IN <<roundCoord(startCoords), startFloorId, roundCoord(endCoords), endFloorId,
         baseKey, roomMode, roomDoorCount, roomArea>>

cacheHas(cache, key) == \E i \in DOMAIN cache : cache[i].key = key

cacheValue(cache, key) == (CHOOSE e \in Range(cache) : e.key = key).value

cacheDelete(cache, key) == SelectSeq(cache, LAMBDA e : e.key # key)

\* Map.set: a key already present keeps its place
mapSet(cache, key, value) ==
    IF cacheHas(cache, key)
    THEN [i \in DOMAIN cache |-> IF cache[i].key = key
                                 THEN [key |-> key, value |-> value] ELSE cache[i]]
    ELSE Append(cache, [key |-> key, value |-> value])

\* PathCache.get on a hit: the entry moves to the end
cacheGet(cache, key) == mapSet(cacheDelete(cache, key), key, cacheValue(cache, key))

\* PathCache.set without the eviction of the oldest entry
cacheSetNoEviction(cache, maxSize, key, route) == mapSet(cache, key, route)

\* PathCache.set
cacheSet(cache, maxSize, key, route) ==
    LET evicted == IF Len(cache) >= maxSize THEN Tail(cache) ELSE cache
    IN mapSet(evicted, key, route)

-----------------------------------------------------------------------------
(* EdgeBuilder (core/EdgeBuilder.js)                                        *)

CandidatePoolMultiplier == 6

\* hasLineOfSight without the collision test
hasLineOfSightAlways(cd, coordsA, coordsB, floorId) == TRUE

hasLineOfSight(cd, coordsA, coordsB, floorId) == isPathClear(cd, coordsA, coordsB, floorId)

\* index of the first entry of best with the largest distSq
worstIndexOf(best) ==
    CHOOSE i \in DOMAIN best :
        /\ \A j \in DOMAIN best : best[j].distSq <= best[i].distSq
        /\ \A j \in 1..(i - 1) : best[j].distSq < best[i].distSq

\* stable sort of best by distSq
RECURSIVE sortByDistSq(_)
sortByDistSq(best) ==
    IF best = <<>> THEN <<>>
    ELSE LET i == CHOOSE i \in DOMAIN best :
                     /\ \A j \in DOMAIN best : best[i].distSq <= best[j].distSq
                     /\ \A j \in 1..(i - 1) : best[j].distSq > best[i].distSq
         IN <<best[i]>> \o sortByDistSq(SubSeq(best, 1, i - 1) \o SubSeq(best, i + 1, Len(best)))

selectNearestCandidates(nodeA, candidates, maxNeighbors) ==
    LET step(best, candidate) ==
            LET distSq == Dist(candidate.coords, nodeA.coords) * Dist(candidate.coords, nodeA.coords)
            IN IF candidate.id = nodeA.id THEN best
               ELSE IF Len(best) < maxNeighbors
               THEN Append(best, [candidate |-> candidate, distSq |-> distSq])
               ELSE IF distSq >= best[worstIndexOf(best)].distSq THEN best
               ELSE [best EXCEPT ![worstIndexOf(best)] =
                                     [candidate |-> candidate, distSq |-> distSq]]
        sorted == sortByDistSq(FoldLeft(step, <<>>, candidates))
    IN [i \in DOMAIN sorted |-> sorted[i].candidate]

\* the candidate neighbours of nodeA: the nodes of the floor in its bounding box
candidatesOf(nodes, nodeA, maxDistance, neighborLimit) ==
    LET inBox == SelectSeq(nodes, LAMBDA n : Dist(n.coords, nodeA.coords) <= maxDistance)
        pool == neighborLimit * CandidatePoolMultiplier
        candidatePoolLimit == IF neighborLimit > pool THEN neighborLimit ELSE pool
    IN IF neighborLimit > 0 /\ Len(inBox) > candidatePoolLimit
       THEN selectNearestCandidates(nodeA, inBox, candidatePoolLimit)
       ELSE inBox

\* `for (const nodeB of candidates)` from candidate i on; neighborLimit = 0 is no limit
RECURSIVE edgesOfNode(_, _, _, _, _, _, _, _)
edgesOfNode(cd, nodeA, candidates, floorId, maxDistance, neighborLimit, i, addedForNode) ==
    IF i > Len(candidates) THEN <<>>
    ELSE LET nodeB == candidates[i]
             distance == Dist(nodeA.coords, nodeB.coords)
         IN IF nodeB.id <= nodeA.id \/ distance > maxDistance
                  \/ ~hasLineOfSight(cd, nodeA.coords, nodeB.coords, floorId)
            THEN edgesOfNode(cd, nodeA, candidates, floorId, maxDistance, neighborLimit,
                             i + 1, addedForNode)
            ELSE << [from |-> nodeA.id, to |-> nodeB.id, weight |-> distance, type |-> "walkable"],
                    [from |-> nodeB.id, to |-> nodeA.id, weight |-> distance, type |-> "walkable"] >>
                 \o (IF neighborLimit > 0 /\ addedForNode + 1 >= neighborLimit THEN <<>>
                     ELSE edgesOfNode(cd, nodeA, candidates, floorId, maxDistance,
                                      neighborLimit, i + 1, addedForNode + 1))

\* one turn of `for (let index = 0; ...)`: the edges found for nodes[index]
edgesForNode(cd, nodes, index, floorId, maxDistance, neighborLimit) ==
    edgesOfNode(cd, nodes[index],
                candidatesOf(nodes, nodes[index], maxDistance, neighborLimit),
                floorId, maxDistance, neighborLimit, 1, 0)

buildEdgesForFloor(cd, nodes, floorId, maxDistance, neighborLimit) ==
    FoldLeft(LAMBDA edges, index :
                 edges \o edgesForNode(cd, nodes, index, floorId, maxDistance, neighborLimit),
             <<>>, [i \in DOMAIN nodes |-> i])

\* the floors of the graph, in the order their first nodes were added
floorList(G) ==
    FoldLeft(LAMBDA floors, id :
                 IF G.nodes[id].floorId \in Range(floors) THEN floors
                 ELSE Append(floors, G.nodes[id].floorId),
             <<>>, G.order)

addEdges(G, edges) ==
    FoldLeft(LAMBDA acc, edge : addEdge(acc, edge.from, edge.to, edge.weight, edge.type, TRUE),
             G, edges)

\* buildAllEdges: <<the graph with the edges added, the edges collected>>
buildAllEdges(G, cd, maxDistance, neighborLimit) ==
    FoldLeft(LAMBDA acc, floorId :
                 LET edges == buildEdgesForFloor(cd, getNodesOnFloor(acc[1], floorId), floorId,
                                                 maxDistance, neighborLimit)
                 IN <<addEdges(acc[1], edges), acc[2] \o edges>>,
             <<G, <<>>>>, floorList(G))

-----------------------------------------------------------------------------
(* ConnectionHandler (multi-floor/ConnectionHandler.js)                     *)

VerticalTravel == 5

isConnector(conn) == conn.type \in {"stairs", "elevator"}

\* the nodes standing for the entrances of one connection
connectorNodes(G, conn) ==
    LET ids == [i \in DOMAIN conn.entrances |-> getNodeByGeometryId(G, conn.entrances[i].geometryId)]
    IN SelectSeq(ids, LAMBDA id : id # Null)

\* processConnections, one entry: its nodes on different floors are joined both ways
connectEntry(G, conn) ==
    IF ~isConnector(conn) THEN G
    ELSE LET ids == connectorNodes(G, conn)
             n == Len(ids)
             all == [k \in 1..(n * n) |-> <<((k - 1) \div n) + 1, ((k - 1) % n) + 1>>]
             ordered == SelectSeq(all, LAMBDA p :
                            /\ p[1] < p[2]
                            /\ G.nodes[ids[p[1]]].floorId # G.nodes[ids[p[2]]].floorId)
         IN FoldLeft(LAMBDA acc, p :
                         addBidirectionalEdge(acc, ids[p[1]], ids[p[2]],
                             Dist(G.nodes[ids[p[1]]].coords, G.nodes[ids[p[2]]].coords)
                                 + VerticalTravel,
                             conn.type, conn.type # "stairs"),
                     G, ordered)

processConnections(G, connections) == FoldLeft(connectEntry, G, connections)

\* tagNodes, one entry: its nodes are marked as stairs or elevator
tagEntry(G, conn) ==
    IF ~isConnector(conn) THEN G
    ELSE [G EXCEPT !.nodes = [id \in DOMAIN G.nodes |->
             IF id \in Range(connectorNodes(G, conn))
             THEN [G.nodes[id] EXCEPT !.isStairs = (@ \/ conn.type = "stairs"),
                                      !.isElevator = (@ \/ conn.type = "elevator")]
             ELSE G.nodes[id]]]

tagNodes(G, connections) == FoldLeft(tagEntry, G, connections)

-----------------------------------------------------------------------------
(* PathfindingEngine: constructor and initialize.  The engine is handed to  *)
(* the operators as the record `this` of its fields.  The data of a         *)
(* building is the record of the arguments of initialize: nodeFeatures,     *)
(* geometry, connections, nonwalkableData, kindsData, navigationFlags and   *)
(* options; entranceNodesData is left at its default, null.                 *)

RoomBufferTenths == 3
DefaultEdgeMaxDistance == 15
OrphanDoorMaxDistance == 6

\* `door_<geometryId>`: the door ids sort before the ids of the node features
DoorIds == <<"D1", "D2">>
doorNodeId(geometryId) == CHOOSE i \in DOMAIN DoorIds : DoorIds[i] = geometryId

NewEngine ==
    [ graph |-> NewGraph, collisionDetector |-> NewCollisionDetector,
      roomIndex |-> EmptyMap, roomDoorIndex |-> EmptyMap, roomMeta |-> EmptyMap,
      doorNodes |-> <<>>, walkableNodesByFloor |-> EmptyMap,
      initialized |-> FALSE, lastRouteError |-> NoError, pathCache |-> <<>> ]

buildGeometryIndex(geometry) ==
    FoldLeft(LAMBDA index, feature : MapSet(index, feature.id, feature), EmptyMap, geometry)

buildRoomIndex(geometry, kindsData) ==
    FoldLeft(LAMBDA index, feature :
                 IF feature.floorId = "" \/ ~MapHas(kindsData, feature.id)
                       \/ kindsData[feature.id] # "room" \/ feature.type # "Polygon"
                 THEN index
                 ELSE MapPush(index, feature.floorId,
                              [ geometryId |-> feature.id, floorId |-> feature.floorId,
                                lo |-> 10 * feature.lo - RoomBufferTenths,
                                hi |-> 10 * feature.hi + RoomBufferTenths,
                                area |-> feature.area ]),
             EmptyMap, geometry)

isPointInRoom(coords, room) == room.lo <= 10 * coords /\ 10 * coords <= room.hi

\* the geometryId of the first room of the floor holding the point, or NoRoom
findRoomAtPoint(this, coords, floorId) ==
    IF ~MapHas(this.roomIndex, floorId) THEN NoRoom
    ELSE LET rooms == SelectSeq(this.roomIndex[floorId], LAMBDA room : isPointInRoom(coords, room))
         IN IF rooms = <<>> THEN NoRoom ELSE rooms[1].geometryId

\* the node loop of step 2, one feature
loadNode(this, feature) ==
    IF feature.floorId = "" THEN this
    ELSE LET nodeType == IF feature.nodeType = "" THEN "waypoint" ELSE feature.nodeType
             node == newNode(feature.id, feature.coords, feature.floorId, nodeType,
                             feature.geometryIds)
         IN [this EXCEPT !.graph = addNode(@, node),
                         !.walkableNodesByFloor =
                             IF nodeType = "walkable" THEN MapPush(@, feature.floorId, node.id)
                             ELSE @]

getFeatureCenter(feature) ==
    IF feature.type = "Point" THEN feature.lo
    ELSE IF feature.type = "LineString" THEN feature.hi
    ELSE (feature.lo + feature.hi) \div 2

\* whether bit `bit` of flagValue is set
bitSet(flagValue, bit) == (flagValue \div (2 ^ bit)) % 2 = 1

\* noteDoorAccess with the flag of the last entrance kept instead of the OR
noteDoorAccessLastWins(doorAccess, entry, navigationFlags) ==
    LET isPublic == IF ~navigationFlags.hasPublicBit THEN TRUE
                    ELSE bitSet(entry.flags, navigationFlags.bit)
        known == {i \in DOMAIN doorAccess : doorAccess[i].geometryId = entry.geometryId}
    IN IF entry.geometryId = "" THEN doorAccess
       ELSE IF known = {}
       THEN Append(doorAccess, [ geometryId |-> entry.geometryId, floorId |-> entry.floorId,
                                 isPublic |-> isPublic ])
       ELSE [i \in DOMAIN doorAccess |->
                IF i \in known
                THEN [doorAccess[i] EXCEPT
                         !.isPublic = isPublic,
                         !.floorId = IF @ = "" THEN entry.floorId ELSE @]
                ELSE doorAccess[i]]

\* the first loop of addDoorNodes, one entrance of a door connection
noteDoorAccess(doorAccess, entry, navigationFlags) ==
    LET isPublic == IF ~navigationFlags.hasPublicBit THEN TRUE
                    ELSE bitSet(entry.flags, navigationFlags.bit)
        known == {i \in DOMAIN doorAccess : doorAccess[i].geometryId = entry.geometryId}
    IN IF entry.geometryId = "" THEN doorAccess
       ELSE IF known = {}
       THEN Append(doorAccess, [ geometryId |-> entry.geometryId, floorId |-> entry.floorId,
                                 isPublic |-> isPublic ])
       ELSE [i \in DOMAIN doorAccess |->
                IF i \in known
                THEN [doorAccess[i] EXCEPT
                         !.isPublic = (@ \/ isPublic),
                         !.floorId = IF @ = "" THEN entry.floorId ELSE @]
                ELSE doorAccess[i]]

doorAccessOf(connections, navigationFlags) ==
    FoldLeft(LAMBDA doorAccess, conn :
                 IF conn.type # "door" THEN doorAccess
                 ELSE FoldLeft(LAMBDA acc, entry : noteDoorAccess(acc, entry, navigationFlags),
                               doorAccess, conn.entrances),
             <<>>, connections)

\* the second loop of addDoorNodes, one door
addDoorNode(this, access, geometryIndex) ==
    IF ~MapHas(geometryIndex, access.geometryId) THEN this
    ELSE LET feature == geometryIndex[access.geometryId]
             floorId == IF access.floorId # "" THEN access.floorId ELSE feature.floorId
             node == [newNode(doorNodeId(access.geometryId), getFeatureCenter(feature), floorId,
                              "door", <<access.geometryId>>)
                         EXCEPT !.isDoor = TRUE, !.isPublic = access.isPublic,
                                !.isLocked = ~access.isPublic]
         IN IF floorId = "" THEN this
            ELSE [this EXCEPT
                     !.graph = addNode(@, node),
                     !.doorNodes = Append(@, node.id),
                     !.collisionDetector.doorSegments =
                         IF feature.type = "LineString"
                         THEN MapPush(@, floorId, [lo |-> feature.lo, hi |-> feature.hi])
                         ELSE @]

addDoorNodes(this, connections, navigationFlags, geometryIndex) ==
    FoldLeft(LAMBDA acc, access : addDoorNode(acc, access, geometryIndex),
             this, doorAccessOf(connections, navigationFlags))

\* buildRoomDoorIndex, one door: the rooms holding it get it, and it gets their ids
indexDoor(acc, doorId) ==
    LET door == acc.graph.nodes[doorId]
        rooms == IF MapHas(acc.roomIndex, door.floorId)
                 THEN SelectSeq(acc.roomIndex[door.floorId],
                                LAMBDA room : isPointInRoom(door.coords, room))
                 ELSE <<>>
        doorRooms == [i \in DOMAIN rooms |-> rooms[i].geometryId]
    IN [acc EXCEPT
           !.roomDoorIndex = FoldLeft(LAMBDA index, roomId : MapPush(index, roomId, doorId),
                                      @, doorRooms),
           !.graph.nodes[doorId].roomIds = IF doorRooms # <<>> THEN doorRooms ELSE @]

buildRoomDoorIndex(this) ==
    FoldLeft(indexDoor, [this EXCEPT !.roomDoorIndex = EmptyMap], this.doorNodes)

tagNodesWithRooms(this) ==
    [this EXCEPT !.graph.nodes = [id \in DOMAIN this.graph.nodes |->
        LET node == this.graph.nodes[id]
            room == findRoomAtPoint(this, node.coords, node.floorId)
        IN IF node.roomIds # <<>> \/ room = NoRoom THEN node
           ELSE [node EXCEPT !.roomIds = <<room>>]]]

allRooms(this) == UNION {Range(this.roomIndex[floorId]) : floorId \in DOMAIN this.roomIndex}

buildRoomMeta(this) ==
    [this EXCEPT !.roomMeta = [roomId \in {room.geometryId : room \in allRooms(this)} |->
        LET doors == IF MapHas(this.roomDoorIndex, roomId) THEN this.roomDoorIndex[roomId]
                     ELSE <<>>
            publicDoors == SelectSeq(doors, LAMBDA d : this.graph.nodes[d].isPublic)
        IN [ area |-> (CHOOSE room \in allRooms(this) : room.geometryId = roomId).area,
             doorCount |-> Len(doors),
             publicDoorCount |-> Len(publicDoors) ]]]

\* connectOrphanDoors, one door
connectOrphanDoor(this, doorId) ==
    LET door == this.graph.nodes[doorId]
        cd == this.collisionDetector
        candidates == SelectSeq(getNodesOnFloor(this.graph, door.floorId),
                                LAMBDA node : node.id # door.id)
        inReach == SelectSeq(candidates,
                             LAMBDA node : Dist(door.coords, node.coords) <= OrphanDoorMaxDistance)
        visible == SelectSeq(inReach,
                             LAMBDA node : isPathClear(cd, door.coords, node.coords, door.floorId))
        best == IF visible # <<>> THEN nearestOf(visible, door.coords)
                ELSE nearestOf(inReach, door.coords)
    IN IF getEdges(this.graph, doorId) # <<>> THEN this
       ELSE IF best = Null THEN this
       ELSE [this EXCEPT !.graph = addBidirectionalEdge(@, doorId, best,
                                       Dist(door.coords, this.graph.nodes[best].coords),
                                       "door-link", TRUE)]

connectOrphanDoors(this) == FoldLeft(connectOrphanDoor, this, this.doorNodes)

\* initialize up to the edge build (lines 59-145)
\* initialize with the connections processed before the edges are built
initializeBeginConnectorsFirst(this, data) ==
    LET reset == [this EXCEPT
                     !.lastRouteError = NoError,
                     !.walkableNodesByFloor = EmptyMap,
                     !.roomIndex = buildRoomIndex(data.geometry, data.kindsData),
                     !.collisionDetector = collisionInitialize(@, data.geometry,
                                               data.nonwalkableData, data.kindsData)]
        loaded == FoldLeft(loadNode, reset, data.nodeFeatures)
        doors == addDoorNodes(loaded, data.connections, data.navigationFlags,
                              buildGeometryIndex(data.geometry))
    IN [doors EXCEPT !.graph = processConnections(@, data.connections)]

initializeBegin(this, data) ==
    LET reset == [this EXCEPT
                     !.lastRouteError = NoError,
                     !.walkableNodesByFloor = EmptyMap,
                     !.roomIndex = buildRoomIndex(data.geometry, data.kindsData),
                     !.collisionDetector = collisionInitialize(@, data.geometry,
                                               data.nonwalkableData, data.kindsData)]
        loaded == FoldLeft(loadNode, reset, data.nodeFeatures)
    IN addDoorNodes(loaded, data.connections, data.navigationFlags,
                    buildGeometryIndex(data.geometry))

\* options.visibilityEdges applied: entries <<from, to, weight>>
applyCachedEdges(G, visibilityEdges) ==
    FoldLeft(LAMBDA acc, edge : addEdge(acc, edge[1], edge[2], edge[3], "walkable", TRUE),
             G, visibilityEdges)

\* step 4 of initialize (lines 147-184)
initializeEdges(this, data) ==
    IF data.options.visibilityEdges # <<>>
    THEN [this EXCEPT !.graph = applyCachedEdges(@, data.options.visibilityEdges)]
    ELSE [this EXCEPT !.graph = buildAllEdges(@, this.collisionDetector,
                                              data.options.edgeMaxDistanceMeters,
                                              data.options.edgeMaxNeighbors)[1]]

\* initialize from the connections on (lines 186-214)
initializeFinish(this, data) ==
    LET connected == [this EXCEPT !.graph = tagNodes(processConnections(@, data.connections),
                                                     data.connections)]
        indexed == buildRoomMeta(tagNodesWithRooms(buildRoomDoorIndex(connected)))
    IN [connectOrphanDoors(indexed) EXCEPT !.initialized = TRUE]

initialize(this, data) == initializeFinish(initializeEdges(initializeBegin(this, data), data), data)

-----------------------------------------------------------------------------
(* PathfindingEngine.findRoute                                              *)

DefaultPublicRoomDoorCount == 2
DefaultPublicRoomArea == 80

NullRoute == [isRoute |-> FALSE]

findNearestWalkableNode(this, coords, floorId) ==
    IF ~MapHas(this.walkableNodesByFloor, floorId) THEN Null
    ELSE nearestOf([i \in DOMAIN this.walkableNodesByFloor[floorId] |->
                       this.graph.nodes[this.walkableNodesByFloor[floorId][i]]], coords)

\* isPublicRoom with the area compared by > instead of >=
isPublicRoomLargerArea(meta, publicRoomDoorCount, publicRoomArea) ==
    IF meta.publicDoorCount >= publicRoomDoorCount THEN TRUE
    ELSE IF meta.doorCount >= (IF publicRoomDoorCount > 2 THEN publicRoomDoorCount ELSE 2)
    THEN TRUE
    ELSE meta.area > publicRoomArea

isPublicRoom(meta, publicRoomDoorCount, publicRoomArea) ==
    IF meta.publicDoorCount >= publicRoomDoorCount THEN TRUE
    ELSE IF meta.doorCount >= (IF publicRoomDoorCount > 2 THEN publicRoomDoorCount ELSE 2)
    THEN TRUE
    ELSE meta.area >= publicRoomArea

\* isPublicRoom(this.roomMeta.get(room)) for a room that may be null or unknown
roomIsPublic(this, room, publicRoomDoorCount, publicRoomArea) ==
    IF room = NoRoom \/ ~MapHas(this.roomMeta, room) THEN FALSE
    ELSE isPublicRoom(this.roomMeta[room], publicRoomDoorCount, publicRoomArea)

buildAllowedRoomIds(this, mode, startRoom, endRoom, options, publicRoomDoorCount, publicRoomArea) ==
    ({startRoom, endRoom} \ {NoRoom})
        \cup (IF mode = "public"
              THEN {roomId \in DOMAIN this.roomMeta :
                       isPublicRoom(this.roomMeta[roomId], publicRoomDoorCount, publicRoomArea)}
              ELSE {})
        \cup options.allowedRoomIds

getRoomDoorCandidates(this, room, allowLockedDoors) ==
    LET doors == IF MapHas(this.roomDoorIndex, room) THEN this.roomDoorIndex[room] ELSE <<>>
    IN [ available |-> SelectSeq(doors, LAMBDA d : allowLockedDoors
                                                      \/ ~this.graph.nodes[d].isLocked),
         locked |-> SelectSeq(doors, LAMBDA d : this.graph.nodes[d].isLocked),
         total |-> Len(doors) ]

pushUnique(list, nodes) ==
    FoldLeft(LAMBDA acc, id : IF id = Null \/ id \in Range(acc) THEN acc ELSE Append(acc, id),
             list, nodes)

isConnectorClear(this, startCoords, endCoords, floorId) ==
    isPathClear(this.collisionDetector, startCoords, endCoords, floorId)

\* the anchor, the door candidates and the candidate list of one endpoint
endpoint(this, coords, floorId, room, isPublic, allowLockedDoors) ==
    LET walkable == findNearestWalkableNode(this, coords, floorId)
        node == IF walkable # Null THEN walkable ELSE findNearestNode(this.graph, coords, floorId)
        useDoors == room # NoRoom /\ ~isPublic
        doors == IF useDoors THEN getRoomDoorCandidates(this, room, allowLockedDoors).available
                 ELSE <<>>
    IN [ node |-> node, useDoors |-> useDoors, doors |-> doors,
         candidates |-> pushUnique(pushUnique(<<>>, <<node>>), doors) ]

\* connectable without the last layer, the expanded nearest node
connectableNoExpanded(this, coords, floorId, room, candidates) ==
    LET cd == this.collisionDetector
        at(id) == this.graph.nodes[id].coords
        strict == SelectSeq(candidates, LAMBDA id : isConnectorClear(this, coords, at(id), floorId))
        relaxed == SelectSeq(candidates, LAMBDA id : isPathClearRelaxed(cd, coords, at(id), floorId))
        nearbyNodes == findNearestNodesInRadius(this.graph, coords, floorId,
                                                NearbyRadiusMilliDegrees, NearbyLimit)
        nearby == SelectSeq([i \in DOMAIN nearbyNodes |-> nearbyNodes[i].id],
                            LAMBDA id : isPathClearRelaxed(cd, coords, at(id), floorId))
    IN IF strict # <<>> THEN [nodes |-> strict, layer |-> "strict"]
       ELSE IF candidates # <<>> /\ relaxed # <<>> THEN [nodes |-> relaxed, layer |-> "relaxed"]
       ELSE IF room # NoRoom /\ candidates # <<>> THEN [nodes |-> candidates, layer |-> "room"]
       ELSE IF room # NoRoom THEN [nodes |-> <<>>, layer |-> "none"]
       ELSE IF nearby # <<>> THEN [nodes |-> nearby, layer |-> "nearby"]
       ELSE [nodes |-> <<>>, layer |-> "none"]

\* steps 3 to 5 for one endpoint: the connectable nodes and the layer that gave them
connectable(this, coords, floorId, room, candidates) ==
    LET cd == this.collisionDetector
        at(id) == this.graph.nodes[id].coords
        strict == SelectSeq(candidates, LAMBDA id : isConnectorClear(this, coords, at(id), floorId))
        relaxed == SelectSeq(candidates, LAMBDA id : isPathClearRelaxed(cd, coords, at(id), floorId))
        nearbyNodes == findNearestNodesInRadius(this.graph, coords, floorId,
                                                NearbyRadiusMilliDegrees, NearbyLimit)
        nearby == SelectSeq([i \in DOMAIN nearbyNodes |-> nearbyNodes[i].id],
                            LAMBDA id : isPathClearRelaxed(cd, coords, at(id), floorId))
        expandedNode == findNearestNodeExpanded(this.graph, coords, floorId)
    IN IF strict # <<>> THEN [nodes |-> strict, layer |-> "strict"]
       ELSE IF candidates # <<>> /\ relaxed # <<>> THEN [nodes |-> relaxed, layer |-> "relaxed"]
       ELSE IF room # NoRoom /\ candidates # <<>> THEN [nodes |-> candidates, layer |-> "room"]
       ELSE IF room # NoRoom THEN [nodes |-> <<>>, layer |-> "none"]
       ELSE IF nearby # <<>> THEN [nodes |-> nearby, layer |-> "nearby"]
       ELSE IF expandedNode # Null THEN [nodes |-> <<expandedNode>>, layer |-> "expanded"]
       ELSE [nodes |-> <<>>, layer |-> "none"]

\* the comparison turned round: the longest route is kept
improvesWhenLonger(acc, totalDistance) == ~acc.found \/ totalDistance > acc.bestDistance

\* whether a path of distance d replaces the best one kept so far
improves(acc, totalDistance) == ~acc.found \/ totalDistance < acc.bestDistance

\* findBestPath: the body of the two nested loops for one pair of candidates
tryPair(this, startCoords, endCoords, optionsForPath, acc, pair) ==
    LET path == findPath(this.graph, pair[1], pair[2], optionsForPath)
        totalDistance == path.distance
                            + Dist(startCoords, this.graph.nodes[pair[1]].coords)
                            + Dist(endCoords, this.graph.nodes[pair[2]].coords)
        counted == [acc EXCEPT !.searches = @ + 1]
    IN IF ~path.found THEN counted
       ELSE IF improves(acc, totalDistance)
       THEN [counted EXCEPT !.found = TRUE, !.best = path, !.bestStart = pair[1],
                            !.bestEnd = pair[2], !.bestDistance = totalDistance]
       ELSE counted

NoAttempt == [found |-> FALSE, best |-> NoPath, bestStart |-> Null, bestEnd |-> Null,
              bestDistance |-> 0, searches |-> 0]

\* findBestPath trying the first pair of candidates only
findBestPathFirstPair(this, startCoords, endCoords, startConnectable, endConnectable, optionsForPath) ==
    tryPair(this, startCoords, endCoords, optionsForPath, NoAttempt,
            <<startConnectable[1], endConnectable[1]>>)

findBestPath(this, startCoords, endCoords, startConnectable, endConnectable, optionsForPath) ==
    LET n == Len(endConnectable)
        pairs == [k \in 1..(Len(startConnectable) * n) |->
                     <<startConnectable[((k - 1) \div n) + 1], endConnectable[((k - 1) % n) + 1]>>]
    IN FoldLeft(LAMBDA acc, pair : tryPair(this, startCoords, endCoords, optionsForPath, acc, pair),
                NoAttempt, pairs)

\* what a findRoute call hands back: the value returned, the error slot and
\* the cache it leaves, and what it did on the way; shown is the route
\* DirectionsUI draws from it, when DirectionsUI made the call
outcome(result, error, cache, did) ==
    [ threw |-> FALSE, result |-> result, lastRouteError |-> error, pathCache |-> cache,
      cacheHit |-> FALSE, reported |-> error, searches |-> did.searches,
      retried |-> did.retried, startLayer |-> did.startLayer, endLayer |-> did.endLayer,
      shown |-> NullRoute ]

Did(searches, retried, startLayer, endLayer) ==
    [searches |-> searches, retried |-> retried, startLayer |-> startLayer, endLayer |-> endLayer]

\* The part of findRoute after the cache lookup (lines 233-575) is written as
\* a chain of operators, one for each stretch of the function between two of
\* its returns; each hands the locals it has computed to the next.

\* the constants findRoute derives from its arguments (lines 233-246, 256):
\* the call, with the options' defaults filled in and the two rooms
routeCall(startCoords, endCoords, startFloorId, endFloorId, options, startRoom, endRoom) ==
    [ startCoords |-> startCoords, endCoords |-> endCoords,
      startFloorId |-> startFloorId, endFloorId |-> endFloorId, options |-> options,
      allowLockedDoors |-> options.allowLockedDoors,
      roomTraversalMode |-> IF options.roomTraversalMode = "" THEN "public"
                            ELSE options.roomTraversalMode,
      publicRoomDoorCount |-> IF options.publicRoomDoorCount >= 0
                              THEN options.publicRoomDoorCount
                              ELSE DefaultPublicRoomDoorCount,
      publicRoomArea |-> IF options.publicRoomArea >= 0 THEN options.publicRoomArea
                         ELSE DefaultPublicRoomArea,
      startRoom |-> startRoom, endRoom |-> endRoom,
      meta |-> [ startCoords |-> startCoords, endCoords |-> endCoords,
                 startFloorId |-> startFloorId, endFloorId |-> endFloorId,
                 startRoomId |-> startRoom, endRoomId |-> endRoom ] ]

\* the route handed back once a path is found (lines 520-575), cached unless
\* options.useCache is false
routeFromAttempt(this, call, routeOptions, startSide, endSide, searchesBefore, retried, attempt) ==
    LET layers == Did(searchesBefore + attempt.searches, retried, startSide.layer, endSide.layer)
        effectiveTraversalMode ==
            IF routeOptions.disallowOtherRooms /\ ~(retried /\ attempt.found)
            THEN call.roomTraversalMode ELSE "all"
        route == [ isRoute |-> TRUE, path |-> attempt.best.coords,
                   nodeIds |-> attempt.best.nodeIds, distance |-> attempt.bestDistance,
                   floors |-> attempt.best.floors, segments |-> attempt.best.segments,
                   startNode |-> attempt.bestStart, endNode |-> attempt.bestEnd,
                   sameRoom |-> FALSE, roomTraversalMode |-> effectiveTraversalMode,
                   meta |-> call.meta ]
    IN IF ~attempt.found
       THEN outcome(NullRoute, "no-path", this.pathCache, layers)
       ELSE outcome(route, NoError,
                    IF call.options.useCache
                    THEN cacheSet(this.pathCache, PathCacheMaxSize,
                                  generateKey(call.startCoords, call.endCoords,
                                              call.startFloorId, call.endFloorId,
                                              call.options), route)
                    ELSE this.pathCache,
                    layers)

\* the retry made without the node filter as well
routeFromSearchUnfiltered(this, call, routeOptions, startSide, endSide, first) ==
    IF ~first.found /\ routeOptions.disallowOtherRooms
    THEN routeFromAttempt(this, call, routeOptions, startSide, endSide, first.searches, TRUE,
                          findBestPath(this, call.startCoords, call.endCoords,
                                       startSide.nodes, endSide.nodes,
                                       [routeOptions EXCEPT !.disallowOtherRooms = FALSE,
                                                            !.allowedRoomIds = {},
                                                            !.nodeFilter = NoFilter]))
    ELSE routeFromAttempt(this, call, routeOptions, startSide, endSide, 0, FALSE, first)

\* the retry without room constraints when the first search found nothing
\* (lines 500-514)
routeFromSearch(this, call, routeOptions, startSide, endSide, first) ==
    IF ~first.found /\ routeOptions.disallowOtherRooms
    THEN routeFromAttempt(this, call, routeOptions, startSide, endSide, first.searches, TRUE,
                          findBestPath(this, call.startCoords, call.endCoords,
                                       startSide.nodes, endSide.nodes,
                                       [routeOptions EXCEPT !.disallowOtherRooms = FALSE,
                                                            !.allowedRoomIds = {}]))
    ELSE routeFromAttempt(this, call, routeOptions, startSide, endSide, 0, FALSE, first)

\* 'blocked' when an endpoint has no connectable node, else the search
\* (lines 470-498)
routeFromConnectable(this, call, routeOptions, startSide, endSide) ==
    IF startSide.nodes = <<>> \/ endSide.nodes = <<>>
    THEN outcome(NullRoute, "blocked", this.pathCache,
                 Did(0, FALSE, startSide.layer, endSide.layer))
    ELSE routeFromSearch(this, call, routeOptions, startSide, endSide,
                         findBestPath(this, call.startCoords, call.endCoords,
                                      startSide.nodes, endSide.nodes, routeOptions))

\* the options handed to findPath (lines 292-333)
routeOptionsOf(call, allowedRoomIds) ==
    [ accessibleOnly |-> call.options.accessibleOnly,
      avoidStairs |-> call.options.avoidStairs,
      heuristicWeight |-> call.options.heuristicWeight,
      disallowOtherRooms |-> call.roomTraversalMode # "all" /\ allowedRoomIds # {},
      allowedRoomIds |-> IF call.roomTraversalMode # "all" THEN allowedRoomIds ELSE {},
      nodeFilter |-> [ present |-> TRUE, reject |-> call.options.nodeFilter,
                       lockedDoors |-> ~call.allowLockedDoors ] ]

\* 'no-door' when a private room has no usable door, else the clearance
\* layers of both endpoints (lines 340-468)
routeFromEndpoints(this, call, allowedRoomIds, startPoint, endPoint) ==
    IF startPoint.useDoors /\ startPoint.doors = <<>>
    THEN outcome(NullRoute, "no-door", this.pathCache, Did(0, FALSE, "", ""))
    ELSE IF endPoint.useDoors /\ endPoint.doors = <<>>
    THEN outcome(NullRoute, "no-door", this.pathCache, Did(0, FALSE, "", ""))
    ELSE routeFromConnectable(this, call, routeOptionsOf(call, allowedRoomIds),
                              connectable(this, call.startCoords, call.startFloorId,
                                          call.startRoom, startPoint.candidates),
                              connectable(this, call.endCoords, call.endFloorId,
                                          call.endRoom, endPoint.candidates))

\* the same-room shortcut, else the anchors of both endpoints (lines 247-339)
routeFromRooms(this, call) ==
    LET sameRoom == /\ call.startRoom # NoRoom
                    /\ call.endRoom # NoRoom
                    /\ call.startRoom = call.endRoom
        trivial == [ isRoute |-> TRUE, path |-> <<call.startCoords, call.endCoords>>,
                     nodeIds |-> <<>>,
                     distance |-> Dist(call.startCoords, call.endCoords),
                     floors |-> <<call.startFloorId, call.endFloorId>>,
                     segments |-> <<newSegment(Null, Null, call.startCoords, call.endCoords,
                                               call.startFloorId, call.endFloorId)>>,
                     startNode |-> Null, endNode |-> Null,
                     sameRoom |-> TRUE, roomTraversalMode |-> "", meta |-> call.meta ]
    IN IF sameRoom
       THEN IF isPathClear(this.collisionDetector, call.startCoords, call.endCoords,
                           call.startFloorId)
            THEN outcome(trivial, NoError, this.pathCache, Did(0, FALSE, "", ""))
            ELSE outcome(NullRoute, "no-path", this.pathCache, Did(0, FALSE, "", ""))
       ELSE routeFromEndpoints(this, call,
                IF call.roomTraversalMode # "all"
                THEN buildAllowedRoomIds(this, call.roomTraversalMode, call.startRoom,
                                         call.endRoom, call.options,
                                         call.publicRoomDoorCount, call.publicRoomArea)
                ELSE {},
                endpoint(this, call.startCoords, call.startFloorId, call.startRoom,
                         roomIsPublic(this, call.startRoom, call.publicRoomDoorCount,
                                      call.publicRoomArea),
                         call.allowLockedDoors),
                endpoint(this, call.endCoords, call.endFloorId, call.endRoom,
                         roomIsPublic(this, call.endRoom, call.publicRoomDoorCount,
                                      call.publicRoomArea),
                         call.allowLockedDoors))

\* findRoute after the cache lookup missed (lines 233-575)
findRouteMiss(this, startCoords, endCoords, startFloorId, endFloorId, options) ==
    routeFromRooms(this,
        routeCall(startCoords, endCoords, startFloorId, endFloorId, options,
                  IF options.snapToDoors THEN findRoomAtPoint(this, startCoords, startFloorId)
                  ELSE NoRoom,
                  IF options.snapToDoors THEN findRoomAtPoint(this, endCoords, endFloorId)
                  ELSE NoRoom))

\* findRoute on an initialized engine: the cache lookup, then the computation
findRoute(this, startCoords, endCoords, startFloorId, endFloorId, options) ==
    LET key == generateKey(startCoords, endCoords, startFloorId, endFloorId, options)
    IN IF ~this.initialized
       THEN [ outcome(NullRoute, this.lastRouteError, this.pathCache,
                      Did(0, FALSE, "", "")) EXCEPT !.threw = TRUE, !.reported = NoError ]
       ELSE IF options.useCache /\ cacheHas(this.pathCache, key)
       THEN [ outcome(cacheValue(this.pathCache, key), this.lastRouteError,
                      cacheGet(this.pathCache, key), Did(0, FALSE, "", ""))
                 EXCEPT !.cacheHit = TRUE, !.reported = NoError ]
       ELSE findRouteMiss(this, startCoords, endCoords, startFloorId, endFloorId, options)

-----------------------------------------------------------------------------
(* DirectionsUI (visualization/DirectionsUI.js)                             *)

\* findNearestEntrance: the entrance nodes of the floor, or failing any, of
\* the whole graph; the first of the nearest ones, or Null
findNearestEntrance(G, coords, floorId) ==
    LET isEntrance(node) == node.type = "entrance"
        candidates == SelectSeq(getNodesOnFloor(G, floorId), isEntrance)
        all == SelectSeq([i \in DOMAIN G.order |-> G.nodes[G.order[i]]], isEntrance)
    IN nearestOf(IF candidates # <<>> THEN candidates ELSE all, coords)

\* withRouteEndpoints once it is known which endpoints are added to the path
withEndpointsAdded(route, startCoords, endCoords, startFloorId, endFloorId, addedStart, addedEnd) ==
    LET path == (IF addedStart THEN <<startCoords>> ELSE <<>>) \o route.path
                   \o (IF addedEnd THEN <<endCoords>> ELSE <<>>)
        floors == IF route.floors = <<>> THEN <<>>
                  ELSE (IF addedStart THEN <<startFloorId>> ELSE <<>>) \o route.floors
                          \o (IF addedEnd THEN <<endFloorId>> ELSE <<>>)
        warnings == (IF route.path[1] # startCoords /\ ~addedStart
                     THEN <<"Start point is blocked by walls.">> ELSE <<>>)
                    \o (IF route.path[Len(route.path)] # endCoords /\ ~addedEnd
                        THEN <<"Destination is blocked by walls.">> ELSE <<>>)
    IN ("warnings" :> warnings) @@
       [route EXCEPT !.path = path,
                     !.floors = IF Len(floors) # Len(path)
                                THEN [i \in DOMAIN path |->
                                         IF i = 1 THEN startFloorId
                                         ELSE IF i = Len(path) THEN endFloorId
                                         ELSE startFloorId]
                                ELSE floors]

\* withRouteEndpoints adding both endpoints whatever lies in between
withRouteEndpointsUnchecked(cd, route, startCoords, endCoords, startFloorId, endFloorId) ==
    withEndpointsAdded(route, startCoords, endCoords, startFloorId, endFloorId,
        route.path[1] # startCoords, route.path[Len(route.path)] # endCoords)

withRouteEndpoints(cd, route, startCoords, endCoords, startFloorId, endFloorId) ==
    withEndpointsAdded(route, startCoords, endCoords, startFloorId, endFloorId,
        /\ route.path[1] # startCoords
        /\ isPathClear(cd, startCoords, route.path[1], startFloorId),
        /\ route.path[Len(route.path)] # endCoords
        /\ isPathClear(cd, route.path[Len(route.path)], endCoords, endFloorId))

\* calculateAndShowRoute from the point where its last findRoute call has
\* returned r for the start point startCoords, startFloorId
showRoute(this, startCoords, startFloorId, q, r) ==
    IF ~r.result.isRoute THEN r
    ELSE [r EXCEPT !.shown = withRouteEndpoints(this.collisionDetector, r.result, startCoords,
                                                q.endCoords, startFloorId, q.endFloorId)]

\* calculateAndShowRoute after its first findRoute call has returned r: a
\* second call from the nearest entrance when the first found no route for a
\* reason other than no-door
routeOrRetry(this, q, r, snapped) ==
    IF r.threw \/ r.result.isRoute \/ r.lastRouteError = "no-door" \/ snapped = Null
    THEN showRoute(this, q.startCoords, q.startFloorId, q, r)
    ELSE showRoute(this, getNode(this.graph, snapped).coords,
                   getNode(this.graph, snapped).floorId, q,
                   findRoute([this EXCEPT !.lastRouteError = r.lastRouteError,
                                          !.pathCache = r.pathCache],
                             getNode(this.graph, snapped).coords, q.endCoords,
                             getNode(this.graph, snapped).floorId, q.endFloorId, q.options))

calculateAndShowRoute(this, q) ==
    routeOrRetry(this, q,
                 findRoute(this, q.startCoords, q.endCoords, q.startFloorId, q.endFloorId,
                           q.options),
                 findNearestEntrance(this.graph, q.startCoords, q.startFloorId))

-----------------------------------------------------------------------------
(* Graphs the searches are checked on.  Four nodes on one axis; the nodes   *)
(* with an id above `split` lie on floor F1.  Node 2 is a locked door,      *)
(* nodes 3 and 4 lie in the rooms R2 and R1.  An edge joining two nodes of  *)
(* one floor is a walkable edge weighing their distance (EdgeBuilder,       *)
(* connectOrphanDoors); an edge joining two floors is a connector weighing  *)
(* the distance plus the vertical-travel constant (ConnectionHandler).      *)

MaxCoord == 2
MaxEdges == 4

NodeIds == {1, 2, 3, 4}
MissingId == Cardinality(NodeIds) + 1
FloorIds == {"F0", "F1"}

RECURSIVE SortedSeq(_)
SortedSeq(S) ==
    IF S = {} THEN <<>>
    ELSE LET m == CHOOSE x \in S : \A y \in S : x <= y
         IN <<m>> \o SortedSeq(S \ {m})

mkNode(id, x, floorId) ==
    [ id |-> id, coords |-> x, floorId |-> floorId,
      type |-> IF id = 2 THEN "door" ELSE "walkable", geometryIds |-> <<>>,
      isDoor |-> (id = 2), isLocked |-> (id = 2), isPublic |-> (id # 2),
      isStairs |-> FALSE, isElevator |-> FALSE,
      roomIds |-> IF id = 3 THEN <<"R2">> ELSE IF id = 4 THEN <<"R1">> ELSE <<>> ]

\* processConnections: the edge a connector entry adds between two floors
connectorEdge(from, to, kind) ==
    newEdge(to.id, Dist(from.coords, to.coords) + VerticalTravel, kind, kind # "stairs")

walkableEdge(from, to) == newEdge(to.id, Dist(from.coords, to.coords), "walkable", TRUE)

mkEdge(nodes, i, j) ==
    IF nodes[i].floorId = nodes[j].floorId THEN walkableEdge(nodes[i], nodes[j])
    ELSE connectorEdge(nodes[i], nodes[j],
                       IF (i + j) % 2 = 1 THEN "stairs" ELSE "elevator")

mkGraph(xs, split, pairs) ==
    LET nodes == [i \in NodeIds |-> mkNode(i, xs[i], IF i > split THEN "F1" ELSE "F0")]
        adj(i) == SortedSeq({j \in NodeIds : <<i, j>> \in pairs \/ <<j, i>> \in pairs})
    IN [ nodes |-> nodes,
         edges |-> [i \in NodeIds |-> [k \in DOMAIN adj(i) |-> mkEdge(nodes, i, adj(i)[k])]],
         order |-> SortedSeq(NodeIds) ]

Pairs == {p \in NodeIds \X NodeIds : p[1] < p[2]}

SearchOptions ==
    { [ accessibleOnly |-> a, avoidStairs |-> s, heuristicWeight |-> 1,
        disallowOtherRooms |-> c, allowedRoomIds |-> IF c THEN {"R1"} ELSE {},
        nodeFilter |-> IF c THEN [present |-> TRUE, reject |-> {}, lockedDoors |-> TRUE]
                       ELSE NoFilter ] : a \in BOOLEAN, s \in BOOLEAN, c \in BOOLEAN }

\* no findRoute call made yet, no building loaded, no findPath call under way
NoCall == [called |-> FALSE, earlier |-> {}]
NoBuilding == [locked |-> FALSE, doorLine |-> FALSE, pillar |-> FALSE, connector |-> "none"]
NoKey == <<>>
\* a NavigationController just constructed, with the record of what its
\* initialize calls do: the key read, whether the read failed or hit, the
\* edges applied, whether the EdgeBuilder ran, the cache writes attempted,
\* the buildings its engine was given, and the engines whose edges were stored
NewController ==
    [ initialized |-> FALSE, pc |-> "idle", completed |-> 0, started |-> 0,
      building |-> NoBuilding, forceRebuildGraph |-> FALSE, disableGraphCache |-> FALSE,
      storeBuilt |-> FALSE, readKey |-> NoKey, readFailed |-> FALSE, hit |-> FALSE,
      applied |-> <<>>, builderRan |-> FALSE, writes |-> <<>>, cancelled |-> FALSE,
      failed |-> FALSE, seen |-> {}, reloads |-> 0, snapshots |-> EmptyMap ]
NoBuild == [active |-> FALSE, completed |-> 0]
NoSearch == [ startNodeId |-> Null, endNodeId |-> Null, returned |-> TRUE ]

NotStarted == [ openSet |-> <<>>, closedSet |-> {}, gScore |-> EmptyMap,
                cameFrom |-> EmptyMap, via |-> EmptyMap, expanded |-> <<>>,
                done |-> TRUE, found |-> FALSE ]

\* the call findPath(startNodeId, endNodeId, options) up to its while loop
findPathEnter(G, startNodeId, endNodeId) ==
    IF ~hasNode(G, startNodeId) \/ ~hasNode(G, endNodeId) THEN NotStarted
    ELSE findPathInit(G, startNodeId, endNodeId)

\* The edge filters are drawn only where the graph has a connector to filter,
\* and the two calls that end before the loop (start = end, unknown end node)
\* only on the graph without edges.
InitAStar ==
    /\ \E xs \in [NodeIds -> 0..MaxCoord], split \in NodeIds, pairs \in SUBSET Pairs,
          e \in {1, 4, MissingId}, o \in SearchOptions :
          /\ xs[1] = 0
          /\ Cardinality(pairs) <= MaxEdges
          /\ (o.accessibleOnly \/ o.avoidStairs) => \E i \in NodeIds : i > split
          /\ e # 4 => pairs = {}
          /\ graph = mkGraph(xs, split, pairs)
          /\ aq = [ startNodeId |-> 1, endNodeId |-> e, options |-> o,
                    returned |-> FALSE, result |-> NoPath ]
    /\ astar = findPathEnter(graph, aq.startNodeId, aq.endNodeId)
    /\ collisionDetector = NewEngine.collisionDetector
    /\ roomIndex = NewEngine.roomIndex
    /\ roomDoorIndex = NewEngine.roomDoorIndex
    /\ roomMeta = NewEngine.roomMeta
    /\ doorNodes = NewEngine.doorNodes
    /\ walkableNodesByFloor = NewEngine.walkableNodesByFloor
    /\ initialized = NewEngine.initialized
    /\ lastRouteError = NewEngine.lastRouteError
    /\ pathCache = NewEngine.pathCache
    /\ building = NoBuilding
    /\ ret = NoCall
    /\ calls = 0
    /\ controller = NewController
    /\ build = NoBuild
    /\ edgeStore = EmptyMap

\* one turn of the while loop of findPath
FindPathStep ==
    /\ ~aq.returned
    /\ ~astar.done
    /\ astar' = findPathIter(graph, aq.endNodeId, aq.options, astar)
    /\ UNCHANGED <<engineVars, lifeVars, building, ret, calls, aq>>

\* findPath returns: the reconstructed path, or null
FindPathReturn ==
    /\ ~aq.returned
    /\ astar.done
    /\ aq' = [aq EXCEPT !.returned = TRUE,
                        !.result = findPathResult(graph, aq.endNodeId, astar)]
    /\ UNCHANGED <<engineVars, lifeVars, building, ret, calls, astar>>

NextAStar == FindPathStep \/ FindPathReturn

SpecAStar == InitAStar /\ [][NextAStar]_vars

\* the same search with the scheduling the program has: the loop keeps running
FairSpecAStar == SpecAStar /\ WF_vars(NextAStar)

-----------------------------------------------------------------------------
(* Buildings the engine is checked on.  Floor F0: the room R1 over metres   *)
(* 0..4 closed by the wall W1 at 4 with the door D1 in it, a corridor to    *)
(* the right with a connector at 7; inside the room a pillar P1 over 1..2   *)
(* in some buildings.  Floor F1: the wall W2 at 3, a waypoint behind it at  *)
(* 1, a walkable node at 5 and the connector at 7.  Floor F2 has no node.   *)
(* The door is locked or not, drawn as a line or as a point, and the        *)
(* connector is a stairs or an elevator.                                    *)

Buildings ==
    [locked : BOOLEAN, doorLine : BOOLEAN, pillar : BOOLEAN, connector : {"stairs", "elevator"}]

feature(id, floorId, type, lo, hi, area) ==
    [id |-> id, floorId |-> floorId, type |-> type, lo |-> lo, hi |-> hi, area |-> area]

nodeFeature(id, coords, floorId, nodeType, geometryIds) ==
    [ id |-> id, coords |-> coords, floorId |-> floorId, nodeType |-> nodeType,
      geometryIds |-> geometryIds ]

entrance(geometryId, floorId, flags) ==
    [geometryId |-> geometryId, floorId |-> floorId, flags |-> flags]

Data(b) ==
    [ nodeFeatures |->
          << nodeFeature(3, 3, "F0", "walkable", <<>>),
             nodeFeature(4, 5, "F0", "walkable", <<>>),
             nodeFeature(5, 7, "F0", "walkable", <<"S0">>),
             nodeFeature(6, 7, "F1", "walkable", <<"S1">>),
             nodeFeature(7, 5, "F1", "walkable", <<>>),
             nodeFeature(8, 1, "F1", "", <<>>) >>,
      geometry |->
          << feature("R1", "F0", "Polygon", 0, 4, 20),
             feature("W1", "F0", "LineString", 4, 4, 0),
             feature("D1", "F0", IF b.doorLine THEN "LineString" ELSE "Point", 4, 4, 0),
             feature("W2", "F1", "LineString", 3, 3, 0) >>
          \o (IF b.pillar THEN <<feature("P1", "F0", "Polygon", 1, 2, 1)>> ELSE <<>>),
      kindsData |-> [id \in {"R1", "W1", "W2"} |-> IF id = "R1" THEN "room" ELSE "wall"],
      nonwalkableData |-> {"P1"},
      connections |->
          << [type |-> "door",
              entrances |-> <<entrance("D1", "F0", IF b.locked THEN 0 ELSE 1)>>],
             [type |-> b.connector,
              entrances |-> <<entrance("S0", "F0", 0), entrance("S1", "F1", 0)>>] >>,
      navigationFlags |-> [hasPublicBit |-> TRUE, bit |-> 0],
      options |-> [ edgeMaxDistanceMeters |-> DefaultEdgeMaxDistance, edgeMaxNeighbors |-> 0,
                    visibilityEdges |-> <<>> ] ]

\* the options of a findRoute call that passes none
DefaultOptions ==
    [ useCache |-> TRUE, snapToDoors |-> TRUE, allowLockedDoors |-> FALSE,
      roomTraversalMode |-> "", publicRoomDoorCount |-> -1, publicRoomArea |-> -1,
      accessibleOnly |-> FALSE, avoidStairs |-> FALSE, disallowOtherRooms |-> FALSE,
      allowedRoomIds |-> {}, nodeFilter |-> {}, heuristicWeight |-> 1 ]

\* findAccessibleRoute
AccessibleOptions == [DefaultOptions EXCEPT !.accessibleOnly = TRUE, !.avoidStairs = TRUE]

query(startCoords, startFloorId, endCoords, endFloorId, options) ==
    [ startCoords |-> startCoords, startFloorId |-> startFloorId,
      endCoords |-> endCoords, endFloorId |-> endFloorId, options |-> options ]

Queries ==
    { query(0, "F0", 4, "F0", DefaultOptions),
      query(0, "F0", 4, "F0", [DefaultOptions EXCEPT !.useCache = FALSE]),
      query(4, "F0", 5, "F0", DefaultOptions),
      query(4, "F0", 5, "F0", [DefaultOptions EXCEPT !.allowLockedDoors = TRUE]),
      query(4, "F0", 5, "F0", [DefaultOptions EXCEPT !.useCache = FALSE]),
      query(0, "F0", 5, "F0", DefaultOptions),
      query(2, "F0", 5, "F0", DefaultOptions),
      query(5, "F0", 7, "F1", DefaultOptions),
      query(5, "F0", 7, "F1", AccessibleOptions),
      query(5, "F0", 1, "F1", DefaultOptions),
      query(5, "F0", 3, "F1", DefaultOptions),
      query(5, "F0", 5, "F2", DefaultOptions) }

-----------------------------------------------------------------------------
(* The engine after initialize has completed, answering findRoute calls.    *)

MaxCalls == 3

\* the engine as the record of its fields
this ==
    [ graph |-> graph, collisionDetector |-> collisionDetector, roomIndex |-> roomIndex,
      roomDoorIndex |-> roomDoorIndex, roomMeta |-> roomMeta, doorNodes |-> doorNodes,
      walkableNodesByFloor |-> walkableNodesByFloor, initialized |-> initialized,
      lastRouteError |-> lastRouteError, pathCache |-> pathCache ]

InitRoute ==
    /\ building \in Buildings
    /\ LET e == initialize(NewEngine, Data(building)) IN
          /\ graph = e.graph
          /\ collisionDetector = e.collisionDetector
          /\ roomIndex = e.roomIndex
          /\ roomDoorIndex = e.roomDoorIndex
          /\ roomMeta = e.roomMeta
          /\ doorNodes = e.doorNodes
          /\ walkableNodesByFloor = e.walkableNodesByFloor
          /\ initialized = e.initialized
          /\ lastRouteError = e.lastRouteError
          /\ pathCache = e.pathCache
    /\ ret = NoCall
    /\ calls = 0
    /\ aq = NoSearch
    /\ astar = NotStarted
    /\ controller = NewController
    /\ build = [NoBuild EXCEPT !.completed = 1]
    /\ edgeStore = EmptyMap

\* what a call leaves for inspection: the query, who made the call, whether
\* engine.findRoute was entered, where the initialize calls stood, what
\* findRoute handed back, and the queries and paths of the routes that the
\* calls before it returned
observed(q, via, reached, r) ==
    [ called |-> TRUE, query |-> q, via |-> via, reached |-> reached,
      engineInitializing |-> build.active, cacheIO |-> controller.pc = "getCachedVisibilityEdges",
      loading |-> controller.pc = "loadNavigationData",
      engineCompleted |-> build.completed, controllerCompleted |-> controller.completed,
      threw |-> r.threw, result |-> r.result,
      cacheHit |-> r.cacheHit, reported |-> r.reported,
      searches |-> r.searches, retried |-> r.retried,
      startLayer |-> r.startLayer, endLayer |-> r.endLayer,
      shown |-> r.shown,
      earlier |-> IF ret.called /\ ret.reached /\ ret.result.isRoute
                  THEN ret.earlier \cup {[query |-> ret.query, path |-> ret.result.path]}
                  ELSE ret.earlier ]

\* a call has returned r: the error slot and the route cache are as it left them
Answered(q, via, reached, r) ==
    /\ lastRouteError' = r.lastRouteError
    /\ pathCache' = r.pathCache
    /\ ret' = observed(q, via, reached, r)
    /\ calls' = calls + 1
    /\ UNCHANGED <<graph, collisionDetector, roomIndex, roomDoorIndex, roomMeta, doorNodes,
                   walkableNodesByFloor, initialized, building, aq, astar, lifeVars>>

\* one findRoute call, from entry to return
FindRoute(q) ==
    /\ calls < MaxCalls
    /\ Answered(q, "engine", TRUE,
                findRoute(this, q.startCoords, q.endCoords, q.startFloorId, q.endFloorId,
                          q.options))

\* DirectionsUI.calculateAndShowRoute for a start point and a destination:
\* it passes no options to findRoute
CalculateAndShowRoute(q) ==
    /\ calls < MaxCalls
    /\ q.options = DefaultOptions
    /\ Answered(q, "directions", TRUE, calculateAndShowRoute(this, q))

NextRoute ==
    \/ \E q \in Queries : FindRoute(q)
    \/ \E q \in Queries : CalculateAndShowRoute(q)

SpecRoute == InitRoute /\ [][NextRoute]_vars

-----------------------------------------------------------------------------
(* Start-up as it runs.  NavigationController.initialize awaits the         *)
(* navigation data, then the read of the stored visibility edges, then the  *)
(* engine's initialize; the engine's initialize awaits the edge build,      *)
(* which hands the thread back after a node (yieldToMainThread).  At each   *)
(* of these awaits other handlers run, findRoute and computeRoute among     *)
(* them.  One map (mapId, time) is one building, so the cache key is the    *)
(* building with the two edge limits.                                       *)

MaxInitializes == 2

ControllerEdgeMaxDistance == 15
ControllerEdgeMaxNeighbors == 8
EdgeCacheVersion == 2

LifecycleBuildings == {b \in Buildings : b.doorLine /\ ~b.pillar /\ b.connector = "stairs"}

LifecycleQueries ==
    { query(4, "F0", 5, "F0", DefaultOptions),
      query(5, "F0", 7, "F1", [DefaultOptions EXCEPT !.useCache = FALSE]) }

\* manifest.features[0].properties of the map of building b
manifestProps(b) == [mapId |-> b, time |-> "t"]

\* the key without the time of the map
buildVisibilityEdgeCacheKeyNoTime(mapId, mapTime, edgeMaxDistanceMeters, edgeMaxNeighbors) ==
    <<"visibilityEdges", EdgeCacheVersion, mapId, "unknown", edgeMaxDistanceMeters,
      edgeMaxNeighbors>>

\* `visibilityEdges:v2:<mapId>:<mapTime>:d<dist>:k<neighbors>`
buildVisibilityEdgeCacheKey(mapId, mapTime, edgeMaxDistanceMeters, edgeMaxNeighbors) ==
    <<"visibilityEdges", EdgeCacheVersion, mapId, mapTime, edgeMaxDistanceMeters,
      edgeMaxNeighbors>>

\* the cacheKey NavigationController.initialize builds for building b
cacheKeyOf(b) ==
    buildVisibilityEdgeCacheKey(manifestProps(b).mapId, manifestProps(b).time,
                                ControllerEdgeMaxDistance, ControllerEdgeMaxNeighbors)

\* getCachedVisibilityEdges letting a failed read reach its caller
getCachedVisibilityEdgesUncaught(store, key, readFails) ==
    [ threw |-> readFails,
      edges |-> IF readFails \/ ~MapHas(store, key) THEN <<>> ELSE store[key] ]

\* getCachedVisibilityEdges: the stored edges, or none; a failed read
\* (IndexedDB missing, open or get rejected) is caught and gives none
getCachedVisibilityEdges(store, key, readFails) ==
    [ threw |-> FALSE,
      edges |-> IF readFails \/ ~MapHas(store, key) THEN <<>> ELSE store[key] ]

\* setCachedVisibilityEdges: an empty list is not stored; a failed write is
\* caught and leaves the store as it was
setCachedVisibilityEdges(store, key, edges, writeFails) ==
    IF edges = <<>> \/ writeFails THEN store ELSE MapSet(store, key, edges)

\* whether initialize reads the edge cache, and whether it hands the engine
\* the callback that writes it (lines 104, 112)
\* readsCache without the test of the rebuild flag
readsCacheUnlessDisabled(forceRebuildGraph, disableGraphCache) == ~disableGraphCache

readsCache(forceRebuildGraph, disableGraphCache) == ~disableGraphCache /\ ~forceRebuildGraph

writesCache(disableGraphCache, visibilityEdges) == ~disableGraphCache /\ visibilityEdges = <<>>

\* the arguments NavigationController.initialize passes to the engine
engineData(b, cachedEdges) ==
    [Data(b) EXCEPT !.options = [ edgeMaxDistanceMeters |-> ControllerEdgeMaxDistance,
                                  edgeMaxNeighbors |-> ControllerEdgeMaxNeighbors,
                                  visibilityEdges |-> cachedEdges ]]

\* enterFloor with the edges of the first node lost at the yield
enterFloorEdgesLost(e, b) ==
    LET floorId == b.floors[b.floorIndex]
        nodes == getNodesOnFloor(e.graph, floorId)
    IN [b EXCEPT !.nodes = nodes, !.index = 1, !.edges = <<>>]

\* buildEdgesForFloor entered for the floor b.floorIndex: its first node is
\* done, then the build yields
enterFloor(e, b) ==
    LET floorId == b.floors[b.floorIndex]
        nodes == getNodesOnFloor(e.graph, floorId)
    IN [b EXCEPT !.nodes = nodes, !.index = 1,
                 !.edges = edgesForNode(e.collisionDetector, nodes, 1, floorId,
                                        b.data.options.edgeMaxDistanceMeters,
                                        b.data.options.edgeMaxNeighbors)]

\* what a run of initialize leaves when it stops: the engine, the call if it
\* is suspended, the edges handed to onVisibilityEdgesBuilt and whether the
\* EdgeBuilder was run
suspended(e, b) == [engine |-> e, build |-> b, built |-> <<>>, ran |-> TRUE]
finished(e, b, built, ran) ==
    [ engine |-> e, build |-> [active |-> FALSE, completed |-> b.completed + 1],
      built |-> built, ran |-> ran ]

\* engine.initialize from its entry to its first await, or to its end when
\* cached edges are applied
initializeEnter(e, data, completed) ==
    LET begun == initializeBegin(e, data)
        floors == floorList(begun.graph)
        b == [ active |-> TRUE, completed |-> completed, data |-> data, floors |-> floors,
               floorIndex |-> 1, nodes |-> <<>>, index |-> 0, edges |-> <<>>,
               collected |-> <<>> ]
    IN IF data.options.visibilityEdges # <<>> \/ floors = <<>>
       THEN finished(initializeFinish(initializeEdges(begun, data), data), b, <<>>,
                     data.options.visibilityEdges = <<>>)
       ELSE suspended(begun, enterFloor(begun, b))

\* engine.initialize resumed after a yield: the next node of the floor; past
\* the floor's last node the floor's edges enter the graph and the next floor
\* begins; past the last floor the rest of initialize runs
initializeResume(e, b) ==
    LET floorId == b.floors[b.floorIndex]
        added == [e EXCEPT !.graph = addEdges(@, b.edges)]
        collected == b.collected \o b.edges
    IN IF b.index < Len(b.nodes)
       THEN suspended(e, [b EXCEPT !.index = @ + 1,
                                 !.edges = @ \o edgesForNode(e.collisionDetector, b.nodes,
                                                   b.index + 1, floorId,
                                                   b.data.options.edgeMaxDistanceMeters,
                                                   b.data.options.edgeMaxNeighbors)])
       ELSE IF b.floorIndex < Len(b.floors)
       THEN suspended(added, enterFloor(added, [b EXCEPT !.floorIndex = @ + 1,
                                                       !.collected = collected]))
       ELSE finished(initializeFinish(added, b.data), b,
                     [i \in DOMAIN collected |->
                         <<collected[i].from, collected[i].to, collected[i].weight>>],
                     TRUE)

\* what became of the edges handed to onVisibilityEdgesBuilt
WriteOutcomes == {"stored", "write-failed", "callback-threw"}

\* the engine's call of onVisibilityEdgesBuilt (lines 175-183): made when the
\* callback was given and the build collected edges; what it throws is caught
edgesWritten(store, key, r, storeBuilt, writeOutcome) ==
    IF r.build.active \/ ~storeBuilt \/ r.built = <<>> \/ writeOutcome = "callback-threw"
    THEN store
    ELSE setCachedVisibilityEdges(store, key, r.built, writeOutcome = "write-failed")

\* the controller's record of its initialize call after a step r of the
\* engine's initialize: where the call stands and what it has done
controllerStepped(c, r, key, storeBuilt, writeOutcome) ==
    [c EXCEPT !.pc = IF r.build.active THEN "engine.initialize" ELSE "idle",
              !.initialized = @ \/ ~r.build.active,
              !.completed = IF r.build.active THEN @ ELSE @ + 1,
              !.storeBuilt = storeBuilt,
              !.builderRan = @ \/ r.ran,
              !.writes = IF r.build.active \/ ~storeBuilt \/ r.built = <<>> THEN @
                         ELSE Append(@, [key |-> key, edges |-> r.built,
                                         outcome |-> writeOutcome]),
              !.snapshots = IF /\ ~r.build.active /\ storeBuilt /\ r.built # <<>>
                               /\ writeOutcome = "stored"
                            THEN MapSet(@, key, [ engine |-> r.engine,
                                                  clean |-> c.seen = {c.building},
                                                  first |-> c.completed = 0 ])
                            ELSE @]

\* the engine's fields, the suspended call, the store and the controller
\* after a step r of the engine's initialize made for the controller
EngineStepped(c, r, b, storeBuilt, writeOutcome) ==
    /\ graph' = r.engine.graph
    /\ collisionDetector' = r.engine.collisionDetector
    /\ roomIndex' = r.engine.roomIndex
    /\ roomDoorIndex' = r.engine.roomDoorIndex
    /\ roomMeta' = r.engine.roomMeta
    /\ doorNodes' = r.engine.doorNodes
    /\ walkableNodesByFloor' = r.engine.walkableNodesByFloor
    /\ initialized' = r.engine.initialized
    /\ lastRouteError' = r.engine.lastRouteError
    /\ pathCache' = r.engine.pathCache
    /\ build' = r.build
    /\ building' = b
    /\ edgeStore' = edgesWritten(edgeStore, cacheKeyOf(b), r, storeBuilt, writeOutcome)
    /\ controller' = controllerStepped(c, r, cacheKeyOf(b), storeBuilt, writeOutcome)
    /\ UNCHANGED <<ret, calls, aq, astar>>

\* controller.initialize is called: it runs up to its await of loadNavigationData
ControllerInitialize(b, forceRebuildGraph, disableGraphCache) ==
    /\ controller.pc = "idle"
    /\ controller.started < MaxInitializes
    /\ controller' = [controller EXCEPT !.pc = "loadNavigationData", !.started = @ + 1,
                                        !.building = b,
                                        !.forceRebuildGraph = forceRebuildGraph,
                                        !.disableGraphCache = disableGraphCache,
                                        !.readKey = NoKey, !.readFailed = FALSE,
                                        !.hit = FALSE, !.applied = <<>>,
                                        !.builderRan = FALSE, !.writes = <<>>,
                                        !.cancelled = FALSE, !.failed = FALSE,
                                        !.seen = @ \cup {b}]
    /\ UNCHANGED <<engineVars, building, ret, calls, aq, astar, build, edgeStore>>

\* the navigation data arrives: on to the cache read, or, with either flag,
\* straight into the engine's initialize
LoadNavigationData ==
    /\ controller.pc = "loadNavigationData"
    /\ IF readsCache(controller.forceRebuildGraph, controller.disableGraphCache)
       THEN /\ controller' = [controller EXCEPT !.pc = "getCachedVisibilityEdges",
                                               !.readKey = cacheKeyOf(controller.building)]
            /\ UNCHANGED <<engineVars, building, ret, calls, aq, astar, build, edgeStore>>
       ELSE EngineStepped(controller,
                          initializeEnter(this, engineData(controller.building, <<>>),
                                          build.completed),
                          controller.building,
                          writesCache(controller.disableGraphCache, <<>>), "stored")

\* the controller once the cache read has returned: the call is rejected if
\* the read threw, else the edges read are what the engine is given
cacheRead(c, read, readFails) ==
    IF read.threw
    THEN [c EXCEPT !.pc = "idle", !.failed = TRUE, !.readFailed = readFails]
    ELSE [c EXCEPT !.readFailed = readFails, !.hit = read.edges # <<>>,
                   !.applied = read.edges]

\* the cache read returns: the engine's initialize is called with what it found
GetCachedVisibilityEdges(readFails) ==
    /\ controller.pc = "getCachedVisibilityEdges"
    /\ LET read == getCachedVisibilityEdges(edgeStore, controller.readKey, readFails)
       IN IF read.threw
          THEN /\ controller' = cacheRead(controller, read, readFails)
               /\ UNCHANGED <<engineVars, building, ret, calls, aq, astar, build, edgeStore>>
          ELSE EngineStepped(cacheRead(controller, read, readFails),
                             initializeEnter(this,
                                 engineData(controller.building, read.edges),
                                 build.completed),
                             controller.building,
                             writesCache(controller.disableGraphCache, read.edges), "stored")

\* the edge build gets the thread back; when it ends, the edges collected go
\* to onVisibilityEdgesBuilt
EdgeBuildResume(writeOutcome) ==
    /\ build.active
    /\ EngineStepped(controller, initializeResume(this, build), building,
                     controller.storeBuilt, writeOutcome)

\* NavigationController.computeRoute with both ends inside the walkable area
ComputeRoute(q) ==
    /\ calls < MaxCalls
    /\ IF ~controller.initialized
       THEN Answered(q, "controller", FALSE,
                     [ outcome(NullRoute, lastRouteError, pathCache, Did(0, FALSE, "", ""))
                          EXCEPT !.reported = NoError ])
       ELSE Answered(q, "controller", TRUE,
                     findRoute(this, q.startCoords, q.endCoords, q.startFloorId,
                               q.endFloorId, q.options))

InitLifecycle ==
    /\ graph = NewEngine.graph
    /\ collisionDetector = NewEngine.collisionDetector
    /\ roomIndex = NewEngine.roomIndex
    /\ roomDoorIndex = NewEngine.roomDoorIndex
    /\ roomMeta = NewEngine.roomMeta
    /\ doorNodes = NewEngine.doorNodes
    /\ walkableNodesByFloor = NewEngine.walkableNodesByFloor
    /\ initialized = NewEngine.initialized
    /\ lastRouteError = NewEngine.lastRouteError
    /\ pathCache = NewEngine.pathCache
    /\ building = NoBuilding
    /\ ret = NoCall
    /\ calls = 0
    /\ aq = NoSearch
    /\ astar = NotStarted
    /\ controller = NewController
    /\ build = NoBuild
    /\ edgeStore = EmptyMap

NextLifecycle ==
    \/ \E b \in LifecycleBuildings, forceRebuildGraph \in BOOLEAN, disableGraphCache \in BOOLEAN :
           ControllerInitialize(b, forceRebuildGraph, disableGraphCache)
    \/ LoadNavigationData
    \/ GetCachedVisibilityEdges(FALSE)
    \/ EdgeBuildResume("stored")
    \/ \E q \in LifecycleQueries : FindRoute(q)
    \/ \E q \in LifecycleQueries : ComputeRoute(q)

SpecLifecycle == InitLifecycle /\ [][NextLifecycle]_vars

\* the controller alone: initialize calls, with the edge build suspending
\* after every node, and computeRoute calls arriving at any point
NextYield ==
    \/ \E b \in LifecycleBuildings, forceRebuildGraph \in BOOLEAN, disableGraphCache \in BOOLEAN :
           ControllerInitialize(b, forceRebuildGraph, disableGraphCache)
    \/ LoadNavigationData
    \/ GetCachedVisibilityEdges(FALSE)
    \/ EdgeBuildResume("stored")
    \/ \E q \in LifecycleQueries : ComputeRoute(q)

SpecYield == InitLifecycle /\ [][NextYield]_vars

(***************************************************************************)
(* Application start-up: the controller's initialize with the edge cache   *)
(* in every condition it can be in, across page loads that share the       *)
(* cache store                                                             *)
(***************************************************************************)
MaxReloads == 1

StartupBuildings == {b \in Buildings : ~b.locked /\ ~b.pillar /\ b.connector = "stairs"}

\* the page is loaded again: a new controller with a new engine; the edge
\* cache store of the browser is kept
Reload ==
    /\ controller.pc = "idle"
    /\ controller.started > 0
    /\ controller.reloads < MaxReloads
    /\ graph' = NewEngine.graph
    /\ collisionDetector' = NewEngine.collisionDetector
    /\ roomIndex' = NewEngine.roomIndex
    /\ roomDoorIndex' = NewEngine.roomDoorIndex
    /\ roomMeta' = NewEngine.roomMeta
    /\ doorNodes' = NewEngine.doorNodes
    /\ walkableNodesByFloor' = NewEngine.walkableNodesByFloor
    /\ initialized' = NewEngine.initialized
    /\ lastRouteError' = NewEngine.lastRouteError
    /\ pathCache' = NewEngine.pathCache
    /\ controller' = [NewController EXCEPT !.reloads = controller.reloads + 1,
                                           !.snapshots = controller.snapshots]
    /\ build' = NoBuild
    /\ building' = NoBuilding
    /\ UNCHANGED <<ret, calls, aq, astar, edgeStore>>

\* the caller of initialize raises its cancellation signal while the call is
\* under way; initialize takes no signal and reads none
Cancel ==
    /\ controller.pc # "idle"
    /\ ~controller.cancelled
    /\ controller' = [controller EXCEPT !.cancelled = TRUE]
    /\ UNCHANGED <<engineVars, building, ret, calls, aq, astar, build, edgeStore>>

NextStartup ==
    \/ \E b \in StartupBuildings, forceRebuildGraph \in BOOLEAN, disableGraphCache \in BOOLEAN :
           ControllerInitialize(b, forceRebuildGraph, disableGraphCache)
    \/ LoadNavigationData
    \/ \E readFails \in BOOLEAN : GetCachedVisibilityEdges(readFails)
    \/ \E writeOutcome \in WriteOutcomes : EdgeBuildResume(writeOutcome)
    \/ Reload
    \/ Cancel

SpecStartup == InitLifecycle /\ [][NextStartup]_vars

-----------------------------------------------------------------------------
(* A PathCache on its own: new PathCache(CacheMaxSize), then get, set and   *)
(* clear in any order, with the keys of the queries above and a few routes. *)

CacheMaxSize == 2

CacheKeys ==
    { generateKey(q.startCoords, q.endCoords, q.startFloorId, q.endFloorId, q.options) :
          q \in Queries }

CacheRoutes ==
    { [ isRoute |-> TRUE, path |-> <<0, x>>, nodeIds |-> <<>>, distance |-> x,
        floors |-> <<"F0", "F0">> ] : x \in 3..5 }

\* what the last operation on the cache was and how many entries it found
cacheOp(op, key, cache) ==
    [ called |-> FALSE, earlier |-> {}, op |-> op, key |-> key,
      sizeBefore |-> Len(cache), present |-> cacheHas(cache, key) ]

InitCache ==
    /\ graph = NewEngine.graph
    /\ collisionDetector = NewEngine.collisionDetector
    /\ roomIndex = NewEngine.roomIndex
    /\ roomDoorIndex = NewEngine.roomDoorIndex
    /\ roomMeta = NewEngine.roomMeta
    /\ doorNodes = NewEngine.doorNodes
    /\ walkableNodesByFloor = NewEngine.walkableNodesByFloor
    /\ initialized = NewEngine.initialized
    /\ lastRouteError = NewEngine.lastRouteError
    /\ pathCache = <<>>
    /\ building = NoBuilding
    /\ ret = NoCall
    /\ calls = 0
    /\ aq = NoSearch
    /\ astar = NotStarted
    /\ controller = NewController
    /\ build = NoBuild
    /\ edgeStore = EmptyMap

CacheStepped(op, key, cache) ==
    /\ pathCache' = cache
    /\ ret' = cacheOp(op, key, pathCache)
    /\ UNCHANGED <<graph, collisionDetector, roomIndex, roomDoorIndex, roomMeta, doorNodes,
                   walkableNodesByFloor, initialized, lastRouteError, building, calls, aq,
                   astar, lifeVars>>

\* PathCache.get
PathCacheGet(key) ==
    CacheStepped("get", key, IF cacheHas(pathCache, key) THEN cacheGet(pathCache, key)
                             ELSE pathCache)

\* PathCache.set
PathCacheSet(key, route) ==
    CacheStepped("set", key, cacheSet(pathCache, CacheMaxSize, key, route))

\* PathCache.clear
PathCacheClear == CacheStepped("clear", <<>>, <<>>)

NextCache ==
    \/ \E key \in CacheKeys : PathCacheGet(key)
    \/ \E key \in CacheKeys, route \in CacheRoutes : PathCacheSet(key, route)
    \/ PathCacheClear

SpecCache == InitCache /\ [][NextCache]_vars

-----------------------------------------------------------------------------
(* Two storeys joined by two connectors.  Floor F0: connector A at 1 m,     *)
(* walkable nodes at 2 m and 6 m, connector B at 7 m, and in some buildings *)
(* the wall W1 at 4 m between the two walkable nodes, solid or with the     *)
(* locked door D1 in it.  Floor F1: connector A at 1 m, a walkable node at  *)
(* 4 m, connector B at 7 m, no wall.  Some buildings have two rooms: the    *)
(* hall R1 around the node at 2 m on F0, large enough to be public, and the *)
(* closet R2 around the walkable node of F1, private and without a door.    *)
(* The edges are built within 3 m, so that the two halves of F0 are joined  *)
(* through the door only, or within the default distance.                   *)

Storeys ==
    [ wall : {"none", "solid", "door"}, rooms : BOOLEAN, reach : {3, DefaultEdgeMaxDistance},
      connector : {"stairs", "elevator"} ]

StoreyData(b) ==
    [ nodeFeatures |->
          << nodeFeature(3, 2, "F0", "walkable", <<>>),
             nodeFeature(4, 6, "F0", "walkable", <<>>),
             nodeFeature(5, 1, "F0", "walkable", <<"A0">>),
             nodeFeature(6, 7, "F0", "walkable", <<"B0">>),
             nodeFeature(7, 1, "F1", "walkable", <<"A1">>),
             nodeFeature(8, 4, "F1", "walkable", <<>>),
             nodeFeature(9, 7, "F1", "walkable", <<"B1">>) >>,
      geometry |->
          (IF b.wall # "none" THEN <<feature("W1", "F0", "LineString", 4, 4, 0)>> ELSE <<>>)
          \o (IF b.wall = "door" THEN <<feature("D1", "F0", "LineString", 4, 4, 0)>> ELSE <<>>)
          \o (IF b.rooms THEN << feature("R1", "F0", "Polygon", 2, 2, DefaultPublicRoomArea),
                                 feature("R2", "F1", "Polygon", 4, 4, 1) >>
              ELSE <<>>),
      kindsData |-> [id \in {"W1", "R1", "R2"} |-> IF id = "W1" THEN "wall" ELSE "room"],
      nonwalkableData |-> {},
      connections |->
          (IF b.wall = "door"
           THEN <<[type |-> "door", entrances |-> <<entrance("D1", "F0", 0)>>]>> ELSE <<>>)
          \o
          << [type |-> b.connector,
              entrances |-> <<entrance("A0", "F0", 0), entrance("A1", "F1", 0)>>],
             [type |-> "elevator",
              entrances |-> <<entrance("B0", "F0", 0), entrance("B1", "F1", 0)>>] >>,
      navigationFlags |-> [hasPublicBit |-> TRUE, bit |-> 0],
      options |-> [ edgeMaxDistanceMeters |-> b.reach, edgeMaxNeighbors |-> 0,
                    visibilityEdges |-> <<>> ] ]

StoreyQueries ==
    { query(2, "F0", 6, "F0", DefaultOptions),
      query(6, "F0", 2, "F0", DefaultOptions),
      query(2, "F0", 6, "F0", AccessibleOptions),
      query(2, "F0", 6, "F0", [DefaultOptions EXCEPT !.allowLockedDoors = TRUE]),
      query(1, "F0", 7, "F0", DefaultOptions),
      query(2, "F0", 4, "F1", DefaultOptions),
      query(7, "F1", 6, "F0", DefaultOptions),
      query(1, "F1", 7, "F1", DefaultOptions) }

InitStoreys ==
    /\ building \in Storeys
    /\ LET e == initialize(NewEngine, StoreyData(building)) IN
          /\ graph = e.graph
          /\ collisionDetector = e.collisionDetector
          /\ roomIndex = e.roomIndex
          /\ roomDoorIndex = e.roomDoorIndex
          /\ roomMeta = e.roomMeta
          /\ doorNodes = e.doorNodes
          /\ walkableNodesByFloor = e.walkableNodesByFloor
          /\ initialized = e.initialized
          /\ lastRouteError = e.lastRouteError
          /\ pathCache = e.pathCache
    /\ ret = NoCall
    /\ calls = 0
    /\ aq = NoSearch
    /\ astar = NotStarted
    /\ controller = NewController
    /\ build = [NoBuild EXCEPT !.completed = 1]
    /\ edgeStore = EmptyMap

NextStoreys == \E q \in StoreyQueries : FindRoute(q)

SpecStoreys == InitStoreys /\ [][NextStoreys]_vars

-----------------------------------------------------------------------------
(* The edge builder and the linking of orphan doors on floors of four      *)
(* nodes, node 2 a door: nodes at 0, 1, 4, 9 ... m so that near and far     *)
(* pairs both occur, listed in several orders, on one or two floors, with   *)
(* or without a wall between 0 m and 1 m, with and without a limit of       *)
(* neighbours                                                               *)

EdgeMaxCoord == 3

EdgeOrders == { <<1, 2, 3, 4>>, <<1, 3, 2, 4>>, <<4, 3, 2, 1>>, <<2, 4, 1, 3>> }

\* the graph before the edge build: nodes only, inserted in the order given
edgeLayoutGraph(layout) ==
    [ nodes |-> [i \in NodeIds |->
                    [mkNode(i, layout.xs[i] * layout.xs[i],
                            IF i > layout.split THEN "F1" ELSE "F0")
                        EXCEPT !.isLocked = FALSE, !.isPublic = TRUE, !.roomIds = <<>>]],
      edges |-> [i \in NodeIds |-> <<>>],
      order |-> layout.order ]

\* the obstacles of the layout: a wall on F0 from 0.4 m to 0.6 m, or none
edgeLayoutDetector(layout) ==
    [ NewCollisionDetector EXCEPT
        !.obstacles = IF layout.wall THEN MapSet(EmptyMap, "F0", <<[lo |-> 4, hi |-> 6]>>)
                      ELSE EmptyMap ]

EdgeLayouts ==
    { [ order |-> o, xs |-> xs, split |-> split, wall |-> wall,
        maxDistance |-> d, neighborLimit |-> k ] :
        o \in EdgeOrders, xs \in [NodeIds -> 0..EdgeMaxCoord], split \in 2..4,
        wall \in BOOLEAN, d \in {2, DefaultEdgeMaxDistance}, k \in 0..2 }

InitEdges ==
    /\ building \in EdgeLayouts
    /\ graph = edgeLayoutGraph(building)
    /\ collisionDetector = edgeLayoutDetector(building)
    /\ roomIndex = NewEngine.roomIndex
    /\ roomDoorIndex = NewEngine.roomDoorIndex
    /\ roomMeta = NewEngine.roomMeta
    /\ doorNodes = <<2>>
    /\ walkableNodesByFloor = NewEngine.walkableNodesByFloor
    /\ initialized = NewEngine.initialized
    /\ lastRouteError = NewEngine.lastRouteError
    /\ pathCache = NewEngine.pathCache
    /\ ret = NoCall
    /\ calls = 0
    /\ aq = NoSearch
    /\ astar = NotStarted
    /\ controller = NewController
    /\ build = NoBuild
    /\ edgeStore = EmptyMap

\* the graph and the observed call after buildAllEdges has returned built
edgesBuilt(built) ==
    /\ graph' = built[1]
    /\ ret' = [called |-> TRUE, earlier |-> {}, edges |-> built[2], linked |-> FALSE,
               orphans |-> {}]

\* EdgeBuilder.buildAllEdges with collectEdges, run to its end
BuildAllEdges ==
    /\ ~ret.called
    /\ edgesBuilt(buildAllEdges(graph, collisionDetector, building.maxDistance,
                                building.neighborLimit))
    /\ UNCHANGED <<collisionDetector, roomIndex, roomDoorIndex, roomMeta, doorNodes,
                   walkableNodesByFloor, initialized, lastRouteError, pathCache, building,
                   calls, aq, astar, lifeVars>>

\* connectOrphanDoors, called once the edges are built
ConnectOrphanDoors ==
    /\ ret.called /\ ~ret.linked
    /\ graph' = connectOrphanDoors(this).graph
    /\ ret' = [ret EXCEPT !.linked = TRUE,
                          !.orphans = {doorNodes[i] : i \in {j \in DOMAIN doorNodes :
                                                      getEdges(graph, doorNodes[j]) = <<>>}}]
    /\ UNCHANGED <<collisionDetector, roomIndex, roomDoorIndex, roomMeta, doorNodes,
                   walkableNodesByFloor, initialized, lastRouteError, pathCache, building,
                   calls, aq, astar, lifeVars>>

NextEdges ==
    \/ BuildAllEdges
    \/ ConnectOrphanDoors

SpecEdges == InitEdges /\ [][NextEdges]_vars

-----------------------------------------------------------------------------
(* What the claims about findPath speak of, stated without the search:     *)
(* the edges and nodes a path may use, and the cheapest such path.         *)

PermittedEdge(opts, e) ==
    /\ opts.accessibleOnly => e.accessible
    /\ opts.avoidStairs => e.type # "stairs"

PermittedNode(opts, n) ==
    /\ opts.nodeFilter.present =>
          /\ n.id \notin opts.nodeFilter.reject
          /\ ~(opts.nodeFilter.lockedDoors /\ n.isDoor /\ n.isLocked)
    /\ opts.disallowOtherRooms =>
          \/ n.isDoor \/ n.isStairs \/ n.isElevator
          \/ n.roomIds = <<>>
          \/ Range(n.roomIds) \cap opts.allowedRoomIds # {}

\* the edges u -> v a path may take
PermittedSteps(G, opts) ==
    { <<u, e>> \in UNION {{u} \X Range(G.edges[u]) : u \in DOMAIN G.edges} :
         /\ PermittedEdge(opts, e)
         /\ e.target \in DOMAIN G.nodes
         /\ PermittedNode(opts, G.nodes[e.target]) }

SetMin(S) == CHOOSE x \in S : \A y \in S : x <= y

\* cheapest cost from src to every node some permitted path reaches
\* (Bellman-Ford, k rounds left)
RECURSIVE Cheapest(_, _, _, _)
Cheapest(G, opts, d, k) ==
    IF k = 0 THEN d
    ELSE LET steps == PermittedSteps(G, opts)
             cand(v) == {d[ue[1]] + ue[2].weight :
                            ue \in {x \in steps : x[1] \in DOMAIN d /\ x[2].target = v}}
                        \cup (IF v \in DOMAIN d THEN {d[v]} ELSE {})
             reached == {v \in DOMAIN G.nodes : cand(v) # {}}
         IN Cheapest(G, opts, [v \in reached |-> SetMin(cand(v))], k - 1)

CheapestFrom(G, opts, src) ==
    IF src \notin DOMAIN G.nodes THEN EmptyMap
    ELSE Cheapest(G, opts, MapSet(EmptyMap, src, 0), Cardinality(DOMAIN G.nodes))

\* cheapest cost from every node to dst: the same on the reversed question
CostTo(G, opts, n, dst) ==
    LET d == CheapestFrom(G, opts, n) IN
    IF dst \in DOMAIN d THEN d[dst] ELSE -1

RECURSIVE SumWeights(_)
SumWeights(steps) ==
    IF steps = <<>> THEN 0 ELSE steps[1].weight + SumWeights(Tail(steps))

NoDuplicates(s) == \A i, j \in DOMAIN s : i # j => s[i] # s[j]

\* every step of the returned path is an edge of the graph between its two nodes
StepsAreEdges(G, r) ==
    \A i \in DOMAIN r.steps :
        /\ r.steps[i].target = r.nodeIds[i + 1]
        /\ r.steps[i] \in Range(getEdges(G, r.nodeIds[i]))

\* C5: a path findPath returns with accessibleOnly set takes every step over an
\* edge of the graph whose accessible flag is true, hence over no stairs edge;
\* with avoidStairs set it takes no step over an edge of type stairs.
C5_AccessibleStepsOnly ==
    (aq.returned /\ aq.result.found) =>
        /\ StepsAreEdges(graph, aq.result)
        /\ \A i \in DOMAIN aq.result.steps :
              /\ aq.options.accessibleOnly =>
                    (aq.result.steps[i].accessible /\ aq.result.steps[i].type # "stairs")
              /\ aq.options.avoidStairs => aq.result.steps[i].type # "stairs"

\* a path over two floors was returned under accessibleOnly while a stairs edge
\* left one of its nodes
C5_Witness ==
    /\ aq.returned /\ aq.result.found /\ aq.options.accessibleOnly
    /\ Len(aq.result.steps) >= 2
    /\ \E i \in DOMAIN aq.result.steps : aq.result.steps[i].type = "elevator"
    /\ \E i \in DOMAIN aq.result.nodeIds :
          \E e \in Range(getEdges(graph, aq.result.nodeIds[i])) : e.type = "stairs"

\* C6: with heuristicWeight = 1 the returned path is a cheapest permitted path,
\* and the heuristic of no node exceeds the cheapest cost from it to the goal.
C6_ShortestPath ==
    (aq.returned /\ aq.result.found /\ aq.options.heuristicWeight = 1) =>
        /\ SumWeights(aq.result.steps)
              = CheapestFrom(graph, aq.options, aq.startNodeId)[aq.endNodeId]
        /\ \A n \in DOMAIN graph.nodes :
              CostTo(graph, aq.options, n, aq.endNodeId) >= 0 =>
                 heuristic(graph.nodes[n], graph.nodes[aq.endNodeId])
                    <= CostTo(graph, aq.options, n, aq.endNodeId)

\* C6, first half alone: the returned path is a cheapest permitted path
C6_ShortestPathOnly ==
    (aq.returned /\ aq.result.found /\ aq.options.heuristicWeight = 1) =>
        SumWeights(aq.result.steps)
            = CheapestFrom(graph, aq.options, aq.startNodeId)[aq.endNodeId]

\* C6 on one floor: no connector edge in the graph
C6_ShortestPathOneFloor ==
    (\A n \in DOMAIN graph.nodes : graph.nodes[n].floorId = "F0") => C6_ShortestPathOnly

C7_Decides ==
    /\ NoDuplicates(astar.expanded)
    /\ aq.returned =>
          /\ aq.result.found
                <=> aq.endNodeId \in DOMAIN CheapestFrom(graph, aq.options, aq.startNodeId)
          /\ aq.result.found =>
                /\ aq.result.nodeIds[1] = aq.startNodeId
                /\ aq.result.nodeIds[Len(aq.result.nodeIds)] = aq.endNodeId
                /\ StepsAreEdges(graph, aq.result)

\* C7: findPath terminates on every graph, expands no node twice, returns null
\* exactly when no permitted path joins start to end, and otherwise returns a
\* path of graph edges from start to end.
C7_TerminatesAndDecides == []C7_Decides /\ <>aq.returned

\* null was returned after a search that expanded nodes, some node being
\* filtered out, and in another run a path of three nodes or more was found
C7_Witness ==
    /\ aq.returned /\ ~aq.result.found
    /\ Len(astar.expanded) >= 2
    /\ aq.endNodeId \in DOMAIN graph.nodes
    /\ aq.endNodeId \in DOMAIN CheapestFrom(graph, [aq.options EXCEPT
            !.accessibleOnly = FALSE, !.avoidStairs = FALSE,
            !.disallowOtherRooms = FALSE, !.nodeFilter = NoFilter], aq.startNodeId)

-----------------------------------------------------------------------------
(* What the claims about findRoute speak of, read off the last call: the    *)
(* rooms of its endpoints, its candidates and the clearance layers taken    *)
(* one by one.                                                              *)

optionOr(value, default) == IF value >= 0 THEN value ELSE default

\* the room findRoute detects at an endpoint of the last call
RoomOf(coords, floorId) ==
    IF ret.query.options.snapToDoors THEN findRoomAtPoint(this, coords, floorId) ELSE NoRoom

RoomPublic(room) ==
    roomIsPublic(this, room,
                 optionOr(ret.query.options.publicRoomDoorCount, DefaultPublicRoomDoorCount),
                 optionOr(ret.query.options.publicRoomArea, DefaultPublicRoomArea))

StartRoom == RoomOf(ret.query.startCoords, ret.query.startFloorId)
EndRoom == RoomOf(ret.query.endCoords, ret.query.endFloorId)

SameRoom == StartRoom # NoRoom /\ StartRoom = EndRoom

\* the room is private and none of its doors may be used by the last call
PrivateWithoutDoor(room) ==
    /\ room # NoRoom
    /\ ~RoomPublic(room)
    /\ \A d \in Range(IF MapHas(roomDoorIndex, room) THEN roomDoorIndex[room] ELSE <<>>) :
          graph.nodes[d].isLocked /\ ~ret.query.options.allowLockedDoors

Returned == ret.called /\ ~ret.threw

LockedDoor(id) == graph.nodes[id].isDoor /\ graph.nodes[id].isLocked

RouteNodes(route) == Range(route.nodeIds) \cup ({route.startNode, route.endNode} \ {Null})

\* C2: a route returned by findRoute with allowLockedDoors = false holds no
\* locked door, neither among its node ids nor as its start or end anchor.
C2_NoLockedDoorInRoute ==
    (Returned /\ ret.result.isRoute /\ ~ret.query.options.allowLockedDoors) =>
        \A id \in RouteNodes(ret.result) : ~LockedDoor(id)

\* C3: when an endpoint lies in a private room without a usable door and the
\* endpoints are not in one room, findRoute returns null, leaves the error
\* code no-door and runs no graph search.
C3_NoDoorWithoutSearch ==
    (Returned /\ ~SameRoom /\ (PrivateWithoutDoor(StartRoom) \/ PrivateWithoutDoor(EndRoom))) =>
        /\ ~ret.result.isRoute
        /\ lastRouteError = "no-door"
        /\ ret.searches = 0

\* C4: when both endpoints are detected in one room and the segment between
\* them is clear, findRoute returns the route [start, end] with no node ids
\* and two floors, and runs no graph search.
C4_SameRoomTrivialRoute ==
    (Returned /\ SameRoom
        /\ isPathClear(collisionDetector, ret.query.startCoords, ret.query.endCoords,
                       ret.query.startFloorId)) =>
        /\ ret.result.isRoute
        /\ ret.result.path = <<ret.query.startCoords, ret.query.endCoords>>
        /\ ret.result.nodeIds = <<>>
        /\ Len(ret.result.floors) = 2
        /\ ret.searches = 0

\* the candidates of one endpoint of the last call
CandidatesOf(coords, floorId, room) ==
    endpoint(this, coords, floorId, room, RoomPublic(room),
             ret.query.options.allowLockedDoors).candidates

\* the clearance layers of one endpoint, in the order findRoute takes them
LayersOf(coords, floorId, room) ==
    LET candidates == Range(CandidatesOf(coords, floorId, room))
        at(id) == graph.nodes[id].coords
        near == {n.id : n \in Range(findNearestNodesInRadius(graph, coords, floorId,
                                        NearbyRadiusMilliDegrees, NearbyLimit))}
        far == findNearestNodeExpanded(graph, coords, floorId)
    IN << [name |-> "strict",
           nodes |-> {id \in candidates :
                         isPathClear(collisionDetector, coords, at(id), floorId)}],
          [name |-> "relaxed",
           nodes |-> {id \in candidates :
                         isPathClearRelaxed(collisionDetector, coords, at(id), floorId)}],
          [name |-> "room",
           nodes |-> IF room # NoRoom THEN candidates ELSE {}],
          [name |-> "nearby",
           nodes |-> IF room # NoRoom THEN {}
                     ELSE {id \in near :
                              isPathClearRelaxed(collisionDetector, coords, at(id), floorId)}],
          [name |-> "expanded",
           nodes |-> IF room # NoRoom \/ far = Null THEN {} ELSE {far}] >>

StartLayers == LayersOf(ret.query.startCoords, ret.query.startFloorId, StartRoom)
EndLayers == LayersOf(ret.query.endCoords, ret.query.endFloorId, EndRoom)

AllEmpty(layers) == \A k \in DOMAIN layers : layers[k].nodes = {}

\* the layer named is the first one that is not empty, and the anchor comes from it
FirstNonEmpty(layers, name, anchor) ==
    \E k \in DOMAIN layers :
        /\ layers[k].name = name
        /\ layers[k].nodes # {}
        /\ \A j \in 1..(k - 1) : layers[j].nodes = {}
        /\ anchor # Null => anchor \in layers[k].nodes

\* C9: findRoute reports blocked only when every clearance layer of the start
\* or of the end is empty, and the connectable nodes of an endpoint come from
\* the first layer that is not empty: a strictly clear candidate is never
\* replaced by one of a later layer.
C9_BlockedOnlyWhenEveryLayerEmpty ==
    (Returned /\ ~ret.cacheHit) =>
        /\ ret.reported = "blocked" => (AllEmpty(StartLayers) \/ AllEmpty(EndLayers))
        /\ (ret.startLayer # "" /\ ret.startLayer # "none") =>
              FirstNonEmpty(StartLayers, ret.startLayer,
                            IF ret.result.isRoute THEN ret.result.startNode ELSE Null)
        /\ (ret.endLayer # "" /\ ret.endLayer # "none") =>
              FirstNonEmpty(EndLayers, ret.endLayer,
                            IF ret.result.isRoute THEN ret.result.endNode ELSE Null)
        /\ ret.startLayer = "none" => AllEmpty(StartLayers)
        /\ ret.endLayer = "none" => AllEmpty(EndLayers)

\* blocked was reported for an end with every layer empty, the start being
\* strictly clear
C9_Witness ==
    /\ Returned /\ ret.reported = "blocked"
    /\ ret.startLayer = "strict" /\ AllEmpty(EndLayers) /\ ~AllEmpty(StartLayers)

\* the options of the searches of the last call once the room constraints are dropped
UnconstrainedOptions ==
    [ accessibleOnly |-> ret.query.options.accessibleOnly,
      avoidStairs |-> ret.query.options.avoidStairs,
      heuristicWeight |-> ret.query.options.heuristicWeight,
      disallowOtherRooms |-> FALSE, allowedRoomIds |-> {},
      nodeFilter |-> [ present |-> TRUE, reject |-> ret.query.options.nodeFilter,
                       lockedDoors |-> ~ret.query.options.allowLockedDoors ] ]

\* the connectable nodes of an endpoint: those of its first layer that is not empty
ConnectableOf(layers) ==
    IF AllEmpty(layers) THEN {}
    ELSE layers[CHOOSE k \in DOMAIN layers :
                    layers[k].nodes # {} /\ \A j \in 1..(k - 1) : layers[j].nodes = {}].nodes

\* no permitted path joins any connectable start node to any connectable end node
NoPairJoined ==
    \A s \in ConnectableOf(StartLayers), e \in ConnectableOf(EndLayers) :
        e \notin DOMAIN CheapestFrom(graph, UnconstrainedOptions, s)

\* every pair of connectable nodes was searched, twice when the searches were retried
EveryPairSearched ==
    ret.searches = Cardinality(ConnectableOf(StartLayers)) * Cardinality(ConnectableOf(EndLayers))
                      * (IF ret.retried THEN 2 ELSE 1)

C10_ErrorSlotDescribesLastCall ==
    Returned =>
        IF ret.result.isRoute THEN lastRouteError = NoError
        ELSE lastRouteError \in {"no-path", "no-door", "blocked"}

-----------------------------------------------------------------------------
(* Claims about start-up                                                     *)

\* C1: a findRoute call made before any initialize call has run to completion,
\* or while an initialize call is in progress (suspended at an edge-build
\* yield or on the cache read), throws 'not initialized' and returns no route;
\* computeRoute does not reach engine.findRoute before the controller's own
\* initialize has completed.
C1_NotInitializedUntilInitializeCompletes ==
    /\ (/\ ret.called
        /\ ret.reached
        /\ (ret.engineCompleted = 0 \/ ret.engineInitializing \/ ret.cacheIO))
          => (ret.threw /\ ~ret.result.isRoute)
    /\ (ret.called /\ ret.via = "controller" /\ ret.controllerCompleted = 0) => ~ret.reached

-----------------------------------------------------------------------------
(* Claims about the routes findRoute returns.                               *)

\* C11: two findRoute calls with identical coordinates, floors and options
\* return routes with equal path coordinate sequences, whether the second is
\* computed or answered from the path cache, whatever calls ran in between.
C11_IdenticalCallsEqualPaths ==
    (Returned /\ ret.result.isRoute) =>
        \A h \in ret.earlier : h.query = ret.query => h.path = ret.result.path

\* C12: every route findRoute returns (same-room, searched or cached) and
\* every route withRouteEndpoints makes of one has as many floors as path points.
C12_PathAndFloorsSameLength ==
    Returned =>
        /\ ret.result.isRoute => Len(ret.result.path) = Len(ret.result.floors)
        /\ ret.shown.isRoute => Len(ret.shown.path) = Len(ret.shown.floors)

\* a searched route served from the path cache, to which withRouteEndpoints
\* added an endpoint
C12_Witness ==
    /\ Returned /\ ret.via = "directions" /\ ret.cacheHit
    /\ ret.shown.isRoute /\ Len(ret.shown.path) > Len(ret.result.path)
    /\ Len(ret.result.nodeIds) >= 2

SumDistances(segments) ==
    FoldLeft(LAMBDA sum, seg : sum + seg.distance, 0, segments)

PathLength(path) ==
    FoldLeft(LAMBDA sum, i : sum + Dist(path[i], path[i + 1]), 0,
             [i \in 1..(Len(path) - 1) |-> i])

\* C13: the distance of every route findRoute returns is the sum of the
\* distances of its segments, which is the sum of the distances between
\* consecutive points of its path.
C13_DistanceIsSumOfSegments ==
    (Returned /\ ret.result.isRoute) =>
        /\ ret.result.distance = SumDistances(ret.result.segments)
        /\ SumDistances(ret.result.segments) = PathLength(ret.result.path)

\* C14: after any sequence of PathCache get, set and clear operations the
\* cache holds at most maxSize routes.
C14_CacheWithinMaxSize == Len(pathCache) <= CacheMaxSize

\* a set of a key not yet cached found the cache full
C14_Witness ==
    /\ "op" \in DOMAIN ret
    /\ ret.op = "set" /\ ~ret.present /\ ret.sizeBefore = CacheMaxSize
    /\ Len(pathCache) = CacheMaxSize

-----------------------------------------------------------------------------
(* Claims about the controller's initialize and the edge cache             *)

\* the controller's initialize has returned normally
InitializeDone == controller.pc = "idle" /\ controller.started > 0 /\ ~controller.failed

\* the (from, to, weight) triples of the walkable edges of a graph
walkableTriples(G) ==
    UNION { { <<from, G.edges[from][i].target, G.edges[from][i].weight>> :
                 i \in {j \in DOMAIN G.edges[from] : G.edges[from][j].type = "walkable"} } :
            from \in DOMAIN G.edges }

C16_FlagsSkipTheCache ==
    /\ [](controller.forceRebuildGraph =>
             /\ controller.pc # "getCachedVisibilityEdges"
             /\ controller.readKey = NoKey
             /\ InitializeDone => controller.builderRan)
    /\ [](controller.disableGraphCache =>
             /\ controller.pc # "getCachedVisibilityEdges"
             /\ controller.readKey = NoKey
             /\ controller.writes = <<>>)
    /\ [][(controller.disableGraphCache /\ controller.pc # "idle") => edgeStore' = edgeStore]_vars

\* a rebuild is forced while the cache holds edges for the map: the edge
\* build is under way although a read would have hit
C16_Witness ==
    /\ controller.forceRebuildGraph /\ ~controller.disableGraphCache
    /\ controller.pc = "engine.initialize" /\ build.active
    /\ controller.readKey = NoKey
    /\ MapHas(edgeStore, cacheKeyOf(controller.building))

\* C17: no failure of the edge cache makes initialize fail.  A read that
\* fails is a miss: nothing is applied, the EdgeBuilder runs and its edges
\* are handed to the write.  When the write fails or the callback throws,
\* initialize still ends with the engine initialized and the built edges in
\* the graph.
C17_CacheFailureNeverFailsInitialize ==
    /\ ~controller.failed
    /\ (InitializeDone /\ controller.readFailed) =>
          /\ initialized /\ controller.initialized
          /\ ~controller.hit /\ controller.applied = <<>>
          /\ controller.builderRan
          /\ Len(controller.writes) = 1
          /\ Range(controller.writes[1].edges) \subseteq walkableTriples(graph)
    /\ (/\ InitializeDone /\ controller.writes # <<>>
        /\ controller.writes[1].outcome # "stored") =>
          /\ initialized /\ controller.initialized
          /\ controller.writes[1].edges # <<>>
          /\ Range(controller.writes[1].edges) \subseteq walkableTriples(graph)

\* the read failed although the store holds edges for the map, and the write
\* of the edges built instead failed as well
C17_Witness ==
    /\ InitializeDone
    /\ controller.readFailed
    /\ MapHas(edgeStore, controller.readKey)
    /\ Len(controller.writes) = 1
    /\ controller.writes[1].outcome = "write-failed"
    /\ initialized

\* the directed edges of a graph, in no order
edgeSet(G) ==
    UNION { { <<from, G.edges[from][i].target, G.edges[from][i].weight,
                G.edges[from][i].type>> : i \in DOMAIN G.edges[from] } :
            from \in DOMAIN G.edges }

\* the two engines have the same directed edges and answer every query alike
sameGraphAndRoutes(e1, e2) ==
    /\ edgeSet(e1.graph) = edgeSet(e2.graph)
    /\ \A q \in Queries :
          findRoute(e1, q.startCoords, q.endCoords, q.startFloorId, q.endFloorId,
                    q.options).result
            = findRoute(e2, q.startCoords, q.endCoords, q.startFloorId, q.endFloorId,
                        q.options).result

\* C18: an initialize that built the visibility edges and an initialize that
\* was given those edges as (from, to, weight) triples leave graphs with the
\* same set of directed edges and the same route for every query.  The
\* engines compared were given no other map.
C18_CacheRoundTrip ==
    (/\ InitializeDone /\ controller.hit
     /\ MapHas(controller.snapshots, controller.readKey)
     /\ controller.snapshots[controller.readKey].clean
     /\ controller.seen = {controller.building}) =>
        sameGraphAndRoutes(this, controller.snapshots[controller.readKey].engine)

\* C19: when the caller's cancellation signal is raised while initialize is
\* under way, the call ends with the engine uninitialized and with none of
\* the nodes, edges and indexes it had built.
C19_CancelledInitializeLeavesNothing ==
    (controller.cancelled /\ controller.pc = "idle") =>
        /\ ~initialized
        /\ graph = NewEngine.graph
        /\ roomIndex = NewEngine.roomIndex
        /\ roomDoorIndex = NewEngine.roomDoorIndex
        /\ roomMeta = NewEngine.roomMeta
        /\ doorNodes = NewEngine.doorNodes
        /\ walkableNodesByFloor = NewEngine.walkableNodesByFloor

\* the first initialize of an engine is suspended in the edge build
AtYield == controller.pc = "engine.initialize" /\ build.active /\ controller.completed = 0

\* the types of the edges of a graph
edgeTypes(G) == {e[4] : e \in edgeSet(G)}

-----------------------------------------------------------------------------
(* Claims about the edge builder                                           *)

\* the edge build of the layout has returned
EdgesBuilt == ret.called /\ ~ret.linked

\* C21: every visibility edge the edge builder emits joins two distinct nodes
\* of one floor that see each other and are at most the maximum distance
\* apart, and it is followed by the reverse edge with the same weight.
C21_EdgesArePairedAndVisible ==
    EdgesBuilt =>
        /\ Len(ret.edges) % 2 = 0
        /\ \A i \in DOMAIN ret.edges :
              /\ ret.edges[i].from # ret.edges[i].to
              /\ graph.nodes[ret.edges[i].from].floorId = graph.nodes[ret.edges[i].to].floorId
              /\ isPathClear(collisionDetector, graph.nodes[ret.edges[i].from].coords,
                                graph.nodes[ret.edges[i].to].coords,
                                graph.nodes[ret.edges[i].from].floorId)
              /\ Dist(graph.nodes[ret.edges[i].from].coords,
                      graph.nodes[ret.edges[i].to].coords) <= building.maxDistance
              /\ ret.edges[i].weight = Dist(graph.nodes[ret.edges[i].from].coords,
                                            graph.nodes[ret.edges[i].to].coords)
              /\ i % 2 = 1 =>
                    /\ ret.edges[i + 1].from = ret.edges[i].to
                    /\ ret.edges[i + 1].to = ret.edges[i].from
                    /\ ret.edges[i + 1].weight = ret.edges[i].weight
        /\ \A i \in DOMAIN ret.edges :
              \E j \in DOMAIN getEdges(graph, ret.edges[i].from) :
                 /\ getEdges(graph, ret.edges[i].from)[j].target = ret.edges[i].to
                 /\ getEdges(graph, ret.edges[i].from)[j].weight = ret.edges[i].weight

\* a build on two floors where the wall hides a pair of near nodes from each
\* other and edges are emitted for another pair
C21_Witness ==
    /\ EdgesBuilt
    /\ building.wall /\ building.split = 2 /\ building.maxDistance = 2
    /\ Len(ret.edges) >= 2
    /\ \E a \in NodeIds, b \in NodeIds :
          /\ a < b /\ graph.nodes[a].floorId = graph.nodes[b].floorId
          /\ Dist(graph.nodes[a].coords, graph.nodes[b].coords) <= building.maxDistance
          /\ ~isPathClear(collisionDetector, graph.nodes[a].coords,
                             graph.nodes[b].coords, graph.nodes[a].floorId)

\* the nodes the edge builder may join to a: later id, same floor, within
\* the maximum distance, in line of sight
eligibleFrom(a) ==
    { b \in NodeIds :
        /\ b > a
        /\ graph.nodes[b].floorId = graph.nodes[a].floorId
        /\ Dist(graph.nodes[a].coords, graph.nodes[b].coords) <= building.maxDistance
        /\ isPathClear(collisionDetector, graph.nodes[a].coords, graph.nodes[b].coords,
                       graph.nodes[a].floorId) }

\* the nodes the edge builder joined to a in a's turn
acceptedFrom(a) ==
    { ret.edges[i].to : i \in { j \in DOMAIN ret.edges : j % 2 = 1 /\ ret.edges[j].from = a } }

\* C30: the edges accepted from a node A go to the nearest of the nodes it
\* may be joined to: as many as the limit allows, and none of them farther
\* from A than a node that was left out.
C30_NearestNeighboursAccepted ==
    EdgesBuilt =>
        \A a \in NodeIds :
           /\ acceptedFrom(a) \subseteq eligibleFrom(a)
           /\ Cardinality(acceptedFrom(a))
                = IF building.neighborLimit > 0
                     /\ Cardinality(eligibleFrom(a)) > building.neighborLimit
                  THEN building.neighborLimit
                  ELSE Cardinality(eligibleFrom(a))
           /\ \A b \in acceptedFrom(a), c \in eligibleFrom(a) \ acceptedFrom(a) :
                 Dist(graph.nodes[a].coords, graph.nodes[b].coords)
                    <= Dist(graph.nodes[a].coords, graph.nodes[c].coords)

\* the engine a first initialize leaves when the edge build never suspends
builtWithoutYield(b) == initialize(NewEngine, engineData(b, <<>>))

\* the edges the edge build collects when it never suspends
collectedWithoutYield(e) ==
    buildAllEdges(e.graph, e.collisionDetector, ControllerEdgeMaxDistance,
                  ControllerEdgeMaxNeighbors)[2]

\* C22: the edges of a build that suspended after every node, with route
\* calls made while it was suspended, are the edges of the build that never
\* suspends, in the same order: in the graph and in what is handed to the
\* cache.
C22_EdgesIndependentOfYields ==
    (InitializeDone /\ controller.completed = 1 /\ controller.builderRan) =>
        /\ graph = builtWithoutYield(controller.building).graph
        /\ controller.writes # <<>> =>
              LET collected == collectedWithoutYield(
                                   initializeBegin(NewEngine,
                                                   engineData(controller.building, <<>>)))
              IN controller.writes[1].edges
                    = [i \in DOMAIN collected |->
                          <<collected[i].from, collected[i].to, collected[i].weight>>]

\* a build has ended during whose suspension a route was asked for
C22_Witness ==
    /\ InitializeDone /\ controller.completed = 1 /\ controller.builderRan
    /\ controller.writes # <<>>
    /\ ret.called /\ ret.engineInitializing /\ ret.engineCompleted = 0
    /\ "walkable" \in edgeTypes(graph)

\* the same-floor nodes within the orphan-door distance of a door, and those
\* of them the door sees
withinReach(door) ==
    { n \in NodeIds \ {door} :
        /\ graph.nodes[n].floorId = graph.nodes[door].floorId
        /\ Dist(graph.nodes[n].coords, graph.nodes[door].coords) <= OrphanDoorMaxDistance }
visibleWithinReach(door) ==
    { n \in withinReach(door) :
        isPathClear(collisionDetector, graph.nodes[door].coords, graph.nodes[n].coords,
                    graph.nodes[door].floorId) }

\* the door-link edges at a door
doorLinks(door) ==
    { getEdges(graph, door)[i] :
        i \in { j \in DOMAIN getEdges(graph, door) :
                  getEdges(graph, door)[j].type = "door-link" } }

\* a door-link edge of the door goes to one of the nearest nodes of S, both
\* ways, accessible
linkedToNearestOf(door, S) ==
    \E e \in doorLinks(door) :
       /\ e.target \in S
       /\ e.accessible
       /\ \A n \in S : Dist(graph.nodes[door].coords, graph.nodes[e.target].coords)
                          <= Dist(graph.nodes[door].coords, graph.nodes[n].coords)
       /\ \E i \in DOMAIN getEdges(graph, e.target) :
             /\ getEdges(graph, e.target)[i].target = door
             /\ getEdges(graph, e.target)[i].type = "door-link"
             /\ getEdges(graph, e.target)[i].accessible

\* C23: once the orphan doors are linked every door node has an edge: a door
\* the visibility build left without edges has a door-link edge, accessible
\* and in both directions, to its nearest same-floor node within 6 m that it
\* sees, or, when it sees none, to its nearest same-floor node within 6 m.
C23_NoDoorIsolated ==
    (ret.called /\ ret.linked) =>
        \A i \in DOMAIN doorNodes :
           /\ getEdges(graph, doorNodes[i]) # <<>>
           /\ doorNodes[i] \in ret.orphans =>
                 IF visibleWithinReach(doorNodes[i]) # {}
                 THEN linkedToNearestOf(doorNodes[i], visibleWithinReach(doorNodes[i]))
                 ELSE linkedToNearestOf(doorNodes[i], withinReach(doorNodes[i]))

-----------------------------------------------------------------------------
(* Claims about the routes findRoute returns                                *)

FloorOf(id) == graph.nodes[id].floorId

\* the i-th node of the route is an end of a step of the route between floors
OnFloorChange(ids, i) ==
    \/ i > 1 /\ FloorOf(ids[i - 1]) # FloorOf(ids[i])
    \/ i < Len(ids) /\ FloorOf(ids[i + 1]) # FloorOf(ids[i])

\* C24: every node of a returned route between its first and its last is on
\* the floor of the start or on the floor of the end, or is an end of a
\* connector edge between floors that the route takes.
C24_IntermediateNodesOnEndFloors ==
    (ret.called /\ ret.result.isRoute /\ ~ret.result.sameRoom) =>
        \A i \in 2..(Len(ret.result.nodeIds) - 1) :
           \/ FloorOf(ret.result.nodeIds[i]) \in {ret.query.startFloorId, ret.query.endFloorId}
           \/ OnFloorChange(ret.result.nodeIds, i)

Reverse(s) == [i \in 1..Len(s) |-> s[Len(s) + 1 - i]]

NoLockedDoors == \A id \in DOMAIN graph.nodes : ~graph.nodes[id].isLocked

OneFloor(route) == \A i \in DOMAIN route.floors : route.floors[i] = route.floors[1]

\* the route back is the route r walked the other way, and as long
reverseOf(r, back) ==
    /\ back.isRoute
    /\ back.path = Reverse(r.path)
    /\ back.distance = r.distance

\* C25: in a building without locked doors, when findRoute(a, b) has returned
\* a route that stays on one floor, findRoute(b, a) called next with the same
\* options returns that path reversed, with the same distance.
C25_ReverseRoute ==
    (/\ ret.called /\ ret.reached /\ ret.via = "engine" /\ ~ret.threw
     /\ NoLockedDoors
     /\ ret.result.isRoute /\ OneFloor(ret.result)) =>
        reverseOf(ret.result,
                  findRoute(this, ret.query.endCoords, ret.query.startCoords,
                            ret.query.endFloorId, ret.query.startFloorId,
                            ret.query.options).result)

-----------------------------------------------------------------------------
(* Claims about the route DirectionsUI shows                                *)

\* calculateAndShowRoute has returned with a route to show, found from the
\* start point of the query
RouteShown ==
    /\ ret.called /\ ret.via = "directions" /\ ~ret.threw
    /\ ret.result.isRoute
    /\ findNearestEntrance(graph, ret.query.startCoords, ret.query.startFloorId) = Null

FirstPoint == ret.result.path[1]
LastPoint == ret.result.path[Len(ret.result.path)]

StartConnectorClear ==
    isPathClear(collisionDetector, ret.query.startCoords, FirstPoint, ret.query.startFloorId)
EndConnectorClear ==
    isPathClear(collisionDetector, LastPoint, ret.query.endCoords, ret.query.endFloorId)

\* the shown route is the found one with the start and the end added as said,
\* and with a warning for each endpoint as said
ShownWith(addedStart, addedEnd, warnStart, warnEnd) ==
    /\ ret.shown.path = (IF addedStart THEN <<ret.query.startCoords>> ELSE <<>>)
                           \o ret.result.path
                           \o (IF addedEnd THEN <<ret.query.endCoords>> ELSE <<>>)
    /\ ("Start point is blocked by walls." \in Range(ret.shown.warnings)) <=> warnStart
    /\ ("Destination is blocked by walls." \in Range(ret.shown.warnings)) <=> warnEnd

-----------------------------------------------------------------------------
(* Claims about the searches of findRoute                                   *)

\* the last call with its defaults filled in, the rooms its search may cross
\* and the options of its searches, before and after the constraints are dropped
LastCall ==
    routeCall(ret.query.startCoords, ret.query.endCoords, ret.query.startFloorId,
              ret.query.endFloorId, ret.query.options, StartRoom, EndRoom)

AllowedRooms ==
    IF LastCall.roomTraversalMode # "all"
    THEN buildAllowedRoomIds(this, LastCall.roomTraversalMode, StartRoom, EndRoom,
                             ret.query.options, LastCall.publicRoomDoorCount,
                             LastCall.publicRoomArea)
    ELSE {}

ConstrainedOptions == routeOptionsOf(LastCall, AllowedRooms)

OptionsUsed ==
    IF ret.retried
    THEN [ConstrainedOptions EXCEPT !.disallowOtherRooms = FALSE, !.allowedRoomIds = {}]
    ELSE ConstrainedOptions

\* findRoute searched the graph and returned the route it found
RouteSearched ==
    Returned /\ ~ret.cacheHit /\ ret.via = "engine" /\ ret.result.isRoute /\ ~ret.result.sameRoom

\* the pairs of connectable nodes that A* joins, and the length of the route
\* through a pair
JoinedPairs ==
    { p \in ConnectableOf(StartLayers) \X ConnectableOf(EndLayers) :
        findPath(graph, p[1], p[2], OptionsUsed).found }

PairTotal(p) ==
    findPath(graph, p[1], p[2], OptionsUsed).distance
       + Dist(ret.query.startCoords, graph.nodes[p[1]].coords)
       + Dist(ret.query.endCoords, graph.nodes[p[2]].coords)

\* C27: the route findRoute returns goes through a pair of candidates that A*
\* joins, its distance is the path's distance plus the two connectors, and no
\* pair that A* joins gives a smaller sum.
C27_BestPairReturned ==
    RouteSearched =>
        /\ <<ret.result.startNode, ret.result.endNode>> \in JoinedPairs
        /\ ret.result.distance = PairTotal(<<ret.result.startNode, ret.result.endNode>>)
        /\ \A p \in JoinedPairs : ret.result.distance <= PairTotal(p)

\* a route through a pair that is shorter than the route through another
\* pair that A* joins
C27_Witness ==
    /\ RouteSearched
    /\ \E p \in JoinedPairs : ret.result.distance < PairTotal(p)

\* findRoute searched the graph, with or without success
Searched == Returned /\ ~ret.cacheHit /\ ret.via = "engine" /\ ret.searches > 0

\* the constrained search joins some pair of connectable nodes
ConstrainedSearchJoins ==
    \E p \in ConnectableOf(StartLayers) \X ConnectableOf(EndLayers) :
        findPath(graph, p[1], p[2], ConstrainedOptions).found

DoorsOfRoom(room) ==
    { d \in Range(IF MapHas(roomDoorIndex, room) THEN roomDoorIndex[room] ELSE <<>>) :
        graph.nodes[d].isDoor }

\* C29: when findRoute takes the candidates of an endpoint inside a room
\* without a line-of-sight check, strict and relaxed clearance having rejected
\* all of them, every node it takes is a door node of that room.
C29_RoomFallbackTakesDoorsOnly ==
    (Returned /\ ~ret.cacheHit /\ ~SameRoom) =>
        /\ ret.startLayer = "room" => ConnectableOf(StartLayers) \subseteq DoorsOfRoom(StartRoom)
        /\ ret.endLayer = "room" => ConnectableOf(EndLayers) \subseteq DoorsOfRoom(EndRoom)

-----------------------------------------------------------------------------
(* The collision detector asked about segments.  The detector holds, on    *)
(* floor F0, the wall W at 4 m (buffered to 3.5..4.5) in some layouts and   *)
(* a non-walkable polygon P in some, and one door segment, at 4 m or at     *)
(* 5 m, on F0, on F1 or on no floor.  The segments run from 0, 4 or 5 m to  *)
(* a whole metre of 0..SegMaxCoord on either floor.                         *)

SegMaxCoord == 12

SegmentStarts == {0, 4, 5}

CollisionLayouts ==
    [ wall : BOOLEAN, polygon : {<<>>, <<6, 7>>, <<5, 12>>}, door : {4, 5},
      doorFloor : {"", "F0", "F1"} ]

collisionLayoutDetector(layout) ==
    setDoorSegments(
        collisionInitialize(
            NewCollisionDetector,
            (IF layout.wall THEN <<feature("W", "F0", "LineString", 4, 4, 0)>> ELSE <<>>)
            \o (IF layout.polygon # <<>>
                THEN <<feature("P", "F0", "Polygon", layout.polygon[1], layout.polygon[2], 1)>>
                ELSE <<>>),
            {"P"}, [id \in {"W"} |-> "wall"]),
        IF layout.doorFloor = "" THEN EmptyMap
        ELSE MapSet(EmptyMap, layout.doorFloor, <<[lo |-> layout.door, hi |-> layout.door]>>))

InitCollision ==
    /\ graph = NewEngine.graph
    /\ \E layout \in CollisionLayouts : collisionDetector = collisionLayoutDetector(layout)
    /\ roomIndex = NewEngine.roomIndex
    /\ roomDoorIndex = NewEngine.roomDoorIndex
    /\ roomMeta = NewEngine.roomMeta
    /\ doorNodes = NewEngine.doorNodes
    /\ walkableNodesByFloor = NewEngine.walkableNodesByFloor
    /\ initialized = NewEngine.initialized
    /\ lastRouteError = NewEngine.lastRouteError
    /\ pathCache = <<>>
    /\ building = NoBuilding
    /\ ret = NoCall
    /\ calls = 0
    /\ aq = NoSearch
    /\ astar = NotStarted
    /\ controller = NewController
    /\ build = NoBuild
    /\ edgeStore = EmptyMap

\* what a call on the detector leaves for inspection
Asked(op, a, b, floorId, result) ==
    /\ ret' = [ called |-> TRUE, earlier |-> {}, op |-> op, a |-> a, b |-> b,
                floorId |-> floorId, result |-> result ]
    /\ UNCHANGED <<graph, collisionDetector, roomIndex, roomDoorIndex, roomMeta, doorNodes,
                   walkableNodesByFloor, initialized, lastRouteError, pathCache, building,
                   calls, aq, astar, lifeVars>>

LineIntersectsObstacle(a, b, floorId) ==
    Asked("lineIntersectsObstacle", a, b, floorId,
          lineIntersectsObstacle(collisionDetector, a, b, floorId))

IsPathClear(a, b, floorId) ==
    Asked("isPathClear", a, b, floorId, isPathClear(collisionDetector, a, b, floorId))

IsPathClearRelaxed(a, b, floorId) ==
    Asked("isPathClearRelaxed", a, b, floorId,
          isPathClearRelaxed(collisionDetector, a, b, floorId))

NextCollision ==
    \/ \E a \in SegmentStarts, b \in 0..SegMaxCoord, floorId \in {"F0", "F1"} :
          LineIntersectsObstacle(a, b, floorId)
    \/ \E a \in SegmentStarts, b \in 0..SegMaxCoord, floorId \in {"F0", "F1"} :
          IsPathClear(a, b, floorId)
    \/ \E a \in SegmentStarts, b \in 0..SegMaxCoord, floorId \in {"F0", "F1"} :
          IsPathClearRelaxed(a, b, floorId)

SpecCollision == InitCollision /\ [][NextCollision]_vars

\* the last call on the detector was op
AskedFor(op) == ret.called /\ ret.op = op

\* the obstacles and the door segments the detector holds for a floor
ObstaclesOn(floorId) ==
    IF floorId \in DOMAIN collisionDetector.obstacles
    THEN {collisionDetector.obstacles[floorId][i] : i \in DOMAIN collisionDetector.obstacles[floorId]}
    ELSE {}

DoorSegmentsOn(floorId) ==
    IF floorId \in DOMAIN collisionDetector.doorSegments
    THEN {collisionDetector.doorSegments[floorId][i] :
              i \in DOMAIN collisionDetector.doorSegments[floorId]}
    ELSE {}

\* the points, in tenths of a metre, where the segment a..b meets the outline of an obstacle
CrossingPoints(a, b, obstacle) ==
    {p \in {obstacle.lo, obstacle.hi} :
        /\ (10 * a <= p \/ 10 * b <= p)
        /\ (p <= 10 * a \/ p <= 10 * b)}

\* the point p is farther than 0.6 m from every door segment of the floor
FarFromDoors(p, floorId) ==
    \A segment \in DoorSegmentsOn(floorId) :
        /\ p < 10 * segment.lo => 10 * segment.lo - p > 6
        /\ p > 10 * segment.hi => p - 10 * segment.hi > 6
        /\ ~(10 * segment.lo <= p /\ p <= 10 * segment.hi)

\* the segment a..b meets an obstacle of the floor away from every door
Collides(a, b, floorId) ==
    \E obstacle \in ObstaclesOn(floorId) :
        \E p \in CrossingPoints(a, b, obstacle) : FarFromDoors(p, floorId)

\* an end sits inside an obstacle of the floor, and not within 0.6 m of a door
EndInObstacle(a, floorId) ==
    /\ \E obstacle \in ObstaclesOn(floorId) : obstacle.lo <= 10 * a /\ 10 * a <= obstacle.hi
    /\ FarFromDoors(10 * a, floorId)

StrictlyClear(a, b, floorId) ==
    ~EndInObstacle(a, floorId) /\ ~EndInObstacle(b, floorId) /\ ~Collides(a, b, floorId)

SegmentLength == IF ret.a < ret.b THEN ret.b - ret.a ELSE ret.a - ret.b

\* C34: isPathClearRelaxed answers true for a segment shorter than 2 m, the
\* negation of lineIntersectsObstacle (the ends are not looked at) for one of
\* 2 m up to 10 m, and what isPathClear answers for one of 10 m or more; so
\* a segment that is strictly clear is relaxed-clear.
C34_RelaxedByLength ==
    AskedFor("isPathClearRelaxed") =>
        /\ SegmentLength < 2 => ret.result
        /\ (2 <= SegmentLength /\ SegmentLength < 10) =>
              (ret.result <=> ~Collides(ret.a, ret.b, ret.floorId))
        /\ SegmentLength >= 10 => (ret.result <=> StrictlyClear(ret.a, ret.b, ret.floorId))
        /\ StrictlyClear(ret.a, ret.b, ret.floorId) => ret.result

\* a segment of each length class on which the relaxed answer is not the
\* strict one: the ends are in the polygon, the crossing is at the door
C34_Witness ==
    /\ AskedFor("isPathClearRelaxed")
    /\ ret.result
    /\ SegmentLength >= 2
    /\ ~StrictlyClear(ret.a, ret.b, ret.floorId)

C34_WitnessShort ==
    /\ AskedFor("isPathClearRelaxed")
    /\ ret.result
    /\ SegmentLength < 2
    /\ Collides(ret.a, ret.b, ret.floorId)

C34_WitnessLong ==
    /\ AskedFor("isPathClearRelaxed")
    /\ ~ret.result
    /\ SegmentLength >= 10
    /\ ~Collides(ret.a, ret.b, ret.floorId)

\* C35: lineIntersectsObstacle is true iff the segment meets some obstacle of
\* the floor at a point farther than 0.6 m from every door segment of that
\* floor; the door segments of another floor forgive nothing.
C35_CollisionAwayFromDoors ==
    AskedFor("lineIntersectsObstacle") =>
        (ret.result <=> Collides(ret.a, ret.b, ret.floorId))

\* a crossing forgiven by a door of the floor
C35_Witness ==
    /\ AskedFor("lineIntersectsObstacle")
    /\ ~ret.result
    /\ \E obstacle \in ObstaclesOn(ret.floorId) : CrossingPoints(ret.a, ret.b, obstacle) # {}

\* a crossing not forgiven while another floor has a door at that very place
C35_WitnessOtherFloor ==
    /\ AskedFor("lineIntersectsObstacle")
    /\ ret.result
    /\ \E other \in DOMAIN collisionDetector.doorSegments :
          /\ other # ret.floorId
          /\ \E obstacle \in ObstaclesOn(ret.floorId) :
                \A p \in CrossingPoints(ret.a, ret.b, obstacle) : ~FarFromDoors(p, other)

-----------------------------------------------------------------------------
(* The path cache with room for LruMaxSize routes, used through get, set    *)
(* and clear with four keys.  Beside the cache the keys it holds are kept   *)
(* in the order of their last use, a get that hit and a set both counting,  *)
(* the least recently used first.                                           *)

LruMaxSize == 3

LruKeys ==
    { generateKey(0, 0, startFloorId, endFloorId, DefaultOptions) :
          startFloorId \in {"F0", "F1"}, endFloorId \in {"F0", "F1"} }

LruRoutes == {route \in CacheRoutes : route.distance <= 4}

keysOf(cache) == [i \in DOMAIN cache |-> cache[i].key]

\* the keys in the order of their last use once key has been used, without
\* the keys the cache no longer holds
usedAfter(used, key, cache) ==
    SelectSeq(Append(SelectSeq(used, LAMBDA k : k # key), key),
              LAMBDA k : cacheHas(cache, k))

InitLru ==
    /\ graph = NewEngine.graph
    /\ collisionDetector = NewEngine.collisionDetector
    /\ roomIndex = NewEngine.roomIndex
    /\ roomDoorIndex = NewEngine.roomDoorIndex
    /\ roomMeta = NewEngine.roomMeta
    /\ doorNodes = NewEngine.doorNodes
    /\ walkableNodesByFloor = NewEngine.walkableNodesByFloor
    /\ initialized = NewEngine.initialized
    /\ lastRouteError = NewEngine.lastRouteError
    /\ pathCache = <<>>
    /\ building = NoBuilding
    /\ ret = [called |-> FALSE, earlier |-> {}, used |-> <<>>]
    /\ calls = 0
    /\ aq = NoSearch
    /\ astar = NotStarted
    /\ controller = NewController
    /\ build = NoBuild
    /\ edgeStore = EmptyMap

LruStepped(op, key, hit, cache) ==
    /\ pathCache' = cache
    /\ ret' = [ called |-> TRUE, earlier |-> {}, op |-> op, key |-> key,
                before |-> keysOf(pathCache), usedBefore |-> ret.used,
                used |-> IF hit THEN usedAfter(ret.used, key, cache)
                         ELSE SelectSeq(ret.used, LAMBDA k : cacheHas(cache, k)) ]
    /\ UNCHANGED <<graph, collisionDetector, roomIndex, roomDoorIndex, roomMeta, doorNodes,
                   walkableNodesByFloor, initialized, lastRouteError, building, calls, aq,
                   astar, lifeVars>>

\* PathCache.get
LruGet(key) ==
    LruStepped("get", key, cacheHas(pathCache, key),
               IF cacheHas(pathCache, key) THEN cacheGet(pathCache, key) ELSE pathCache)

\* PathCache.set
LruSet(key, route) ==
    LruStepped("set", key, TRUE, cacheSet(pathCache, LruMaxSize, key, route))

\* PathCache.clear
LruClear == LruStepped("clear", <<>>, FALSE, <<>>)

NextLru ==
    \/ \E key \in LruKeys : LruGet(key)
    \/ \E key \in LruKeys, route \in LruRoutes : LruSet(key, route)
    \/ LruClear

SpecLru == InitLru /\ [][NextLru]_vars

\* the keys the last operation removed from the cache
Evicted == Range(ret.before) \ Range(keysOf(pathCache))

\* the last operation was a set that found the cache full
SetIntoFull == ret.called /\ ret.op = "set" /\ Len(ret.before) >= LruMaxSize

\* C38: a set into a full cache evicts the least recently used entry, a get
\* that hit and a set of a key both counting as a use of it, and no other
\* entry; a set of a key not in the cache evicts exactly that one.
C38_EvictsLeastRecentlyUsed ==
    SetIntoFull =>
        /\ Evicted \subseteq {ret.usedBefore[1]}
        /\ ret.key \notin Range(ret.before) => Evicted = {ret.usedBefore[1]}

\* what the call just answered returns on the same engine with useCache false
Uncached ==
    findRoute(this, ret.query.startCoords, ret.query.endCoords, ret.query.startFloorId,
              ret.query.endFloorId, [ret.query.options EXCEPT !.useCache = FALSE]).result

sameRoute(r, u) ==
    /\ r.isRoute = u.isRoute
    /\ r.isRoute => r.path = u.path /\ r.nodeIds = u.nodeIds /\ r.distance = u.distance

\* C39: every findRoute call returns the path, the node ids and the distance
\* the same call returns with useCache false: a cached route is never handed
\* to a call whose coordinates or options give another route.
C39_CacheIsTransparent ==
    (ret.called /\ ret.reached /\ ret.via = "engine" /\ ~ret.threw) =>
        sameRoute(ret.result, Uncached)

\* a fresh engine initialized with the inputs of the latest initialize call
FreshEngine == initialize(NewEngine, engineData(controller.building, controller.applied))

\* the engine holds what the fresh engine holds: the nodes of the graph, the
\* door nodes, the door segments, the doors of every room and the door
\* counts of every room, and no cached route
sameAsFresh(fresh) ==
    /\ graph.nodes = fresh.graph.nodes
    /\ doorNodes = fresh.doorNodes
    /\ collisionDetector.doorSegments = fresh.collisionDetector.doorSegments
    /\ roomDoorIndex = fresh.roomDoorIndex
    /\ roomMeta = fresh.roomMeta
    /\ pathCache = fresh.pathCache

\* C40: a second initialize on the same engine leaves what an initialize of
\* a fresh engine with the same inputs leaves: nothing of the earlier call is
\* kept or doubled, and no route computed on the earlier graph stays cached.
C40_ReinitializeIsFresh ==
    (InitializeDone /\ controller.completed >= 2) => sameAsFresh(FreshEngine)

\* the same comparison after the first initialize of an engine, with no
\* route asked for yet
C40_FirstInitializeIsFresh ==
    (InitializeDone /\ controller.completed = 1 /\ ~ret.called) => sameAsFresh(FreshEngine)

-----------------------------------------------------------------------------
(* initialize on door connections of every shape.  The door connection has  *)
(* two entrances: the first names the door D1, drawn as a line at 4 m on    *)
(* F0; the second names D1 again or the door D2, a point at 6 m on F0 that  *)
(* the geometry holds or not, with or without a floor on the entrance.      *)
(* The flags of the entrances are 0..MaxFlags, the public bit is bit 0 or   *)
(* bit 1 or not defined.  A stairs connection names S0 and S1.              *)

MaxFlags == 3

DoorInputs ==
    [ flagsA : 0..MaxFlags, flagsB : 0..MaxFlags, second : {"D1", "D2"},
      drawn : BOOLEAN, entryFloor : BOOLEAN, hasPublicBit : BOOLEAN, bit : 0..1 ]

DoorData(input) ==
    [ Data([locked |-> FALSE, doorLine |-> TRUE, pillar |-> FALSE, connector |-> "stairs"])
        EXCEPT
          !.geometry = @ \o (IF input.drawn THEN <<feature("D2", "F0", "Point", 6, 6, 0)>>
                             ELSE <<>>),
          !.connections =
              << [type |-> "door",
                  entrances |-> << entrance("D1", "F0", input.flagsA),
                                   entrance(input.second,
                                            IF input.entryFloor THEN "F0" ELSE "",
                                            input.flagsB) >>],
                 [type |-> "stairs",
                  entrances |-> <<entrance("S0", "F0", 0), entrance("S1", "F1", 0)>>] >>,
          !.navigationFlags = [hasPublicBit |-> input.hasPublicBit, bit |-> input.bit] ]

InitDoors ==
    /\ graph = NewEngine.graph
    /\ collisionDetector = NewEngine.collisionDetector
    /\ roomIndex = NewEngine.roomIndex
    /\ roomDoorIndex = NewEngine.roomDoorIndex
    /\ roomMeta = NewEngine.roomMeta
    /\ doorNodes = NewEngine.doorNodes
    /\ walkableNodesByFloor = NewEngine.walkableNodesByFloor
    /\ initialized = NewEngine.initialized
    /\ lastRouteError = NewEngine.lastRouteError
    /\ pathCache = NewEngine.pathCache
    /\ building = NoBuilding
    /\ \E input \in DoorInputs : ret = [called |-> FALSE, earlier |-> {}, input |-> input]
    /\ calls = 0
    /\ aq = NoSearch
    /\ astar = NotStarted
    /\ controller = NewController
    /\ build = NoBuild
    /\ edgeStore = EmptyMap

\* engine.initialize, from entry to return, on a new engine
InitializeDoors ==
    /\ ~initialized
    /\ LET e == initialize(this, DoorData(ret.input)) IN
          /\ graph' = e.graph
          /\ collisionDetector' = e.collisionDetector
          /\ roomIndex' = e.roomIndex
          /\ roomDoorIndex' = e.roomDoorIndex
          /\ roomMeta' = e.roomMeta
          /\ doorNodes' = e.doorNodes
          /\ walkableNodesByFloor' = e.walkableNodesByFloor
          /\ initialized' = e.initialized
          /\ lastRouteError' = e.lastRouteError
          /\ pathCache' = e.pathCache
    /\ ret' = [ret EXCEPT !.called = TRUE]
    /\ UNCHANGED <<building, calls, aq, astar, lifeVars>>

NextDoors == InitializeDoors

SpecDoors == InitDoors /\ [][NextDoors]_vars

\* the entrances of the door connections that name a geometry
DoorEntrances ==
    LET connections == DoorData(ret.input).connections IN
    { connections[c].entrances[i] :
          c \in {c \in DOMAIN connections : connections[c].type = "door"},
          i \in 1..2 }

DoorGeometryIds == {entry.geometryId : entry \in DoorEntrances} \ {""}

\* the door nodes of the graph made for a geometry
DoorNodesOf(geometryId) ==
    {id \in DOMAIN graph.nodes :
        graph.nodes[id].type = "door" /\ graph.nodes[id].geometryIds = <<geometryId>>}

\* the public bit of an entrance, set for every entrance when none is defined
EntrancePublic(entry) ==
    LET flags == DoorData(ret.input).navigationFlags IN
    IF flags.hasPublicBit THEN (entry.flags \div (2 ^ flags.bit)) % 2 = 1 ELSE TRUE

\* the geometry holds the door and a floor is known for it
DoorDrawn(geometryId) ==
    \E i \in DOMAIN DoorData(ret.input).geometry :
        DoorData(ret.input).geometry[i].id = geometryId

DoorNodesWellFormed ==
    /\ \A id \in DOMAIN graph.nodes :
          graph.nodes[id].type = "door" =>
              /\ graph.nodes[id].isDoor
              /\ graph.nodes[id].isLocked = ~graph.nodes[id].isPublic
              /\ \E g \in DoorGeometryIds : id \in DoorNodesOf(g)
    /\ \A g \in DoorGeometryIds :
          \A id \in DoorNodesOf(g) :
              graph.nodes[id].isPublic
                <=> \E entry \in DoorEntrances : entry.geometryId = g /\ EntrancePublic(entry)

C36_WitnessNoPublicBit ==
    /\ initialized
    /\ ~ret.input.hasPublicBit
    /\ ret.input.flagsA = 0
    /\ \A id \in DoorNodesOf("D1") : graph.nodes[id].isPublic
    /\ DoorNodesOf("D1") # {}

-----------------------------------------------------------------------------
(* findRoute asked with the thresholds of a public room overridden.  The    *)
(* room R1 over 0..4 m on F0 has an area of 20 or of 80 m2, the door D1 at  *)
(* 4 m, locked or not, and in some buildings a second, locked door D2 at    *)
(* 0 m.  The queries go from inside the room and from its door to the       *)
(* corridor, and back into the room.                                        *)

MaxRoomCalls == 1

RoomBuildings == [locked : BOOLEAN, second : BOOLEAN, area : {20, 80}]

RoomData(b) ==
    [ Data([locked |-> b.locked, doorLine |-> TRUE, pillar |-> FALSE, connector |-> "stairs"])
        EXCEPT
          !.geometry = << feature("R1", "F0", "Polygon", 0, 4, b.area),
                          feature("W1", "F0", "LineString", 4, 4, 0),
                          feature("D1", "F0", "LineString", 4, 4, 0),
                          feature("W2", "F1", "LineString", 3, 3, 0) >>
                       \o (IF b.second THEN <<feature("D2", "F0", "Point", 0, 0, 0)>>
                           ELSE <<>>),
          !.connections =
              << [type |-> "door",
                  entrances |-> <<entrance("D1", "F0", IF b.locked THEN 0 ELSE 1)>>] >>
              \o (IF b.second
                  THEN <<[type |-> "door", entrances |-> <<entrance("D2", "F0", 0)>>]>>
                  ELSE <<>>)
              \o << [type |-> "stairs",
                     entrances |-> <<entrance("S0", "F0", 0), entrance("S1", "F1", 0)>>] >> ]

RoomQueries ==
    { query(ends[1], "F0", ends[2], "F0",
            [DefaultOptions EXCEPT !.publicRoomDoorCount = P, !.publicRoomArea = A]) :
          ends \in {<<2, 5>>, <<5, 2>>, <<4, 5>>}, P \in {-1, 0, 1, 3}, A \in {-1, 20, 100} }

InitRooms ==
    /\ \E b \in RoomBuildings :
          LET e == initialize(NewEngine, RoomData(b)) IN
             /\ graph = e.graph
             /\ collisionDetector = e.collisionDetector
             /\ roomIndex = e.roomIndex
             /\ roomDoorIndex = e.roomDoorIndex
             /\ roomMeta = e.roomMeta
             /\ doorNodes = e.doorNodes
             /\ walkableNodesByFloor = e.walkableNodesByFloor
             /\ initialized = e.initialized
             /\ lastRouteError = e.lastRouteError
             /\ pathCache = e.pathCache
    /\ building = NoBuilding
    /\ ret = NoCall
    /\ calls = 0
    /\ aq = NoSearch
    /\ astar = NotStarted
    /\ controller = NewController
    /\ build = [NoBuild EXCEPT !.completed = 1]
    /\ edgeStore = EmptyMap

\* one findRoute call with its own thresholds, from entry to return
FindRouteInRooms(q) ==
    /\ calls < MaxRoomCalls
    /\ Answered(q, "engine", TRUE,
                findRoute(this, q.startCoords, q.endCoords, q.startFloorId, q.endFloorId,
                          q.options))

NextRooms == \E q \in RoomQueries : FindRouteInRooms(q)

SpecRooms == InitRooms /\ [][NextRooms]_vars

\* the thresholds of the last call: 2 doors and 80 m2 unless the options say otherwise
ThresholdP ==
    IF ret.query.options.publicRoomDoorCount >= 0 THEN ret.query.options.publicRoomDoorCount
    ELSE 2

ThresholdA ==
    IF ret.query.options.publicRoomArea >= 0 THEN ret.query.options.publicRoomArea ELSE 80

RoomArea(room) ==
    LET rooms == UNION {Range(roomIndex[f]) : f \in DOMAIN roomIndex}
    IN (CHOOSE r \in rooms : r.geometryId = room).area

\* the rule of a public room, on the doors and the area of the room
PublicByRule(room) ==
    \/ Cardinality({d \in DoorsOfRoom(room) : graph.nodes[d].isPublic}) >= ThresholdP
    \/ Cardinality(DoorsOfRoom(room)) >= (IF ThresholdP > 2 THEN ThresholdP ELSE 2)
    \/ RoomArea(room) >= ThresholdA

\* the endpoint is in a room that is not public by the rule
InPrivateRoom(room) == room # NoRoom /\ ~PublicByRule(room)

UsableDoors(room) ==
    {d \in DoorsOfRoom(room) : ret.query.options.allowLockedDoors \/ ~graph.nodes[d].isLocked}

\* a call that computed its answer for endpoints not in one room
Computed == ret.called /\ ret.reached /\ ~ret.threw /\ ~ret.cacheHit /\ ~SameRoom

\* C37: findRoute treats a room as public iff publicDoorCount >= P or
\* doorCount >= max(2, P) or area >= A, with P = 2 and A = 80 unless the
\* options of the call say otherwise: the call fails with no-door exactly
\* when an endpoint is in a room not public by this rule that has no usable
\* door, and a route is anchored at a door of a room only for an endpoint in
\* a room not public by this rule.
C37_PublicRoomRule ==
    Computed =>
        /\ ret.reported = "no-door"
             <=> \/ InPrivateRoom(StartRoom) /\ UsableDoors(StartRoom) = {}
                 \/ InPrivateRoom(EndRoom) /\ UsableDoors(EndRoom) = {}
        /\ ret.result.isRoute =>
              /\ ret.result.startNode \in DoorsOfRoom(StartRoom) => InPrivateRoom(StartRoom)
              /\ ret.result.endNode \in DoorsOfRoom(EndRoom) => InPrivateRoom(EndRoom)

\* a room with one locked door taken as public because the call lowered the
\* area threshold to its area: the route is computed
C37_Witness ==
    /\ Computed
    /\ ret.query.options.publicRoomArea = 20
    /\ StartRoom # NoRoom
    /\ UsableDoors(StartRoom) = {}
    /\ ~InPrivateRoom(StartRoom)
    /\ ret.result.isRoute

\* a room public by default for its two doors, private once P is 3
C37_WitnessDoorCount ==
    /\ Computed
    /\ ret.query.options.publicRoomDoorCount = 3
    /\ Cardinality(DoorsOfRoom(StartRoom)) = 2
    /\ ret.reported = "no-door"

\* a route anchored at the door of the private room it starts in
C37_WitnessAnchored ==
    /\ Computed
    /\ ret.result.isRoute
    /\ ret.result.startNode \in DoorsOfRoom(StartRoom)

-----------------------------------------------------------------------------
(* findPath and findPathBidirectional called on the same graph with the     *)
(* same arguments.  The graphs are those of the A* search on one floor or   *)
(* with the nodes 3 and 4 on F1, the door node 2 being inside the room R2;  *)
(* the options filter edges or not, reject locked doors or not, and         *)
(* restrict the rooms to R1, to no room at all, or not.                     *)

BidirectionalOptions ==
    { [ accessibleOnly |-> e = "accessibleOnly", avoidStairs |-> e = "avoidStairs",
        heuristicWeight |-> 1,
        disallowOtherRooms |-> r # "off",
        allowedRoomIds |-> IF r = "R1" THEN {"R1"} ELSE {},
        nodeFilter |-> IF f THEN [present |-> TRUE, reject |-> {}, lockedDoors |-> TRUE]
                       ELSE NoFilter ] :
          e \in {"none", "accessibleOnly", "avoidStairs"}, r \in {"off", "R1", "none"},
          f \in BOOLEAN }

\* the graph with the edges at its last node kept in both directions, only
\* towards that node ("in") or only away from it ("out"): Graph.addEdge adds
\* one directed edge
withOneWayEdges(G, direction) ==
    LET last == Len(G.order) IN
    [G EXCEPT !.edges =
        [i \in DOMAIN @ |->
            SelectSeq(@[i], LAMBDA e : \/ direction = "both"
                                      \/ (direction = "in" /\ i # last)
                                      \/ (direction = "out" /\ e.target # last))]]

InitBidirectional ==
    /\ \E xs \in [NodeIds -> 0..MaxCoord], split \in {2, 4}, pairs \in SUBSET Pairs,
          e \in {1, 4, MissingId}, o \in BidirectionalOptions,
          direction \in {"both", "in", "out"} :
          /\ xs[1] = 0
          /\ Cardinality(pairs) <= MaxEdges
          /\ (o.accessibleOnly \/ o.avoidStairs) => split = 2
          /\ e # 4 => pairs = {}
          /\ direction # "both" => \E p \in pairs : p[2] = 4
          /\ graph = [withOneWayEdges(mkGraph(xs, split, pairs), direction)
                        EXCEPT !.nodes[2].roomIds = <<"R2">>]
          /\ aq = [ startNodeId |-> 1, endNodeId |-> e, options |-> o,
                    returned |-> FALSE, result |-> NoPath ]
    /\ astar = NotStarted
    /\ collisionDetector = NewEngine.collisionDetector
    /\ roomIndex = NewEngine.roomIndex
    /\ roomDoorIndex = NewEngine.roomDoorIndex
    /\ roomMeta = NewEngine.roomMeta
    /\ doorNodes = NewEngine.doorNodes
    /\ walkableNodesByFloor = NewEngine.walkableNodesByFloor
    /\ initialized = NewEngine.initialized
    /\ lastRouteError = NewEngine.lastRouteError
    /\ pathCache = NewEngine.pathCache
    /\ building = NoBuilding
    /\ ret = NoCall
    /\ calls = 0
    /\ controller = NewController
    /\ build = NoBuild
    /\ edgeStore = EmptyMap

\* findPath, from its call to its return
FindPath ==
    /\ ~aq.returned
    /\ aq' = [aq EXCEPT !.returned = TRUE,
                        !.result = findPath(graph, aq.startNodeId, aq.endNodeId, aq.options)]
    /\ UNCHANGED <<engineVars, lifeVars, building, ret, calls, astar>>

\* findPathBidirectional with the same arguments, from its call to its return
FindPathBidirectional ==
    /\ ~ret.called
    /\ ret' = [ called |-> TRUE, earlier |-> {},
                result |-> findPathBidirectional(graph, aq.startNodeId, aq.endNodeId,
                                                 aq.options) ]
    /\ UNCHANGED <<engineVars, lifeVars, building, aq, calls, astar>>

NextBidirectional == FindPath \/ FindPathBidirectional

SpecBidirectional == InitBidirectional /\ [][NextBidirectional]_vars

\* both searches have returned
BothReturned == aq.returned /\ ret.called

\* C32: with heuristicWeight = 1 findPathBidirectional returns null exactly
\* when findPath returns null, and otherwise a path of the distance of the
\* path findPath returns.
C32_SameDistanceAsFindPath ==
    (BothReturned /\ aq.options.heuristicWeight = 1) =>
        /\ ret.result.found <=> aq.result.found
        /\ ret.result.found => ret.result.distance = aq.result.distance

\* the call restricts the rooms: disallowOtherRooms with allowedRoomIds given
RoomsRestricted == aq.options.disallowOtherRooms /\ aq.options.allowedRoomIds # {}

\* every node of the path after its first is a door, a stairs or an elevator
\* node, or has no room, or has a room among the allowed ones
RoomsRespected(nodeIds) ==
    \A i \in 2..Len(nodeIds) :
        LET n == graph.nodes[nodeIds[i]] IN
        \/ n.isDoor \/ n.isStairs \/ n.isElevator
        \/ n.roomIds = <<>>
        \/ Range(n.roomIds) \cap aq.options.allowedRoomIds # {}

\* some path over permitted edges and nodes, doors, stairs and elevators
\* being permitted whatever their rooms, leads from the start to the end
PermittedPathExists ==
    aq.endNodeId \in DOMAIN CheapestFrom(graph, aq.options, aq.startNodeId)

\* the room rule as a search keeps it: its path respects the rooms, and it
\* finds a path exactly when a permitted one exists
KeepsRoomRule(result) ==
    /\ result.found => RoomsRespected(result.nodeIds)
    /\ result.found <=> PermittedPathExists

\* C31: in findPath and in findPathBidirectional alike, with disallowOtherRooms
\* and allowedRoomIds set, a node that is no door, stairs or elevator is
\* entered only if it has no room or a room among the allowed ones, and a
\* door, stairs or elevator node is never rejected for its rooms.
C31_SameRoomRuleInBothSearches ==
    RoomsRestricted =>
        /\ aq.returned => KeepsRoomRule(aq.result)
        /\ ret.called => KeepsRoomRule(ret.result)

\* the half of C31 that is about findPath
C31_FindPathKeepsRoomRule ==
    (RoomsRestricted /\ aq.returned) => KeepsRoomRule(aq.result)

\* the edges u -> v of the graph that pass the edge filters of the call
FilteredEdges(u, v) ==
    {e \in Range(getEdges(graph, u)) : e.target = v /\ PermittedEdge(aq.options, e)}

\* every consecutive pair of the path is joined by an edge that passes the filters
JoinedByEdges(nodeIds) ==
    \A i \in 1..(Len(nodeIds) - 1) : FilteredEdges(nodeIds[i], nodeIds[i + 1]) # {}

\* the sum of the weights of the edges that join the consecutive pairs
RECURSIVE WeightAlong(_, _)
WeightAlong(nodeIds, i) ==
    IF i >= Len(nodeIds) THEN 0
    ELSE SetMin({e.weight : e \in FilteredEdges(nodeIds[i], nodeIds[i + 1])})
            + WeightAlong(nodeIds, i + 1)

StartsAndEnds(r) ==
    /\ r.nodeIds # <<>>
    /\ r.nodeIds[1] = aq.startNodeId
    /\ r.nodeIds[Len(r.nodeIds)] = aq.endNodeId

MeetingNodeOnce(r) ==
    Cardinality({i \in DOMAIN r.nodeIds : r.nodeIds[i] = r.meetingNode}) = 1

\* C33: every path findPathBidirectional returns starts at the start node,
\* ends at the end node, holds the meeting node exactly once, has every
\* consecutive pair (u, v) joined by an edge u -> v that passes the filters,
\* and reports as distance the sum of the weights of those edges.
C33_BidirectionalPathIsWellFormed ==
    (ret.called /\ ret.result.found) =>
        /\ StartsAndEnds(ret.result)
        /\ MeetingNodeOnce(ret.result)
        /\ JoinedByEdges(ret.result.nodeIds)
        /\ ret.result.distance = WeightAlong(ret.result.nodeIds, 1)

\* every edge of the graph has its reverse
EdgesPaired ==
    \A u \in DOMAIN graph.edges : \A e \in Range(graph.edges[u]) :
        \E back \in Range(getEdges(graph, e.target)) : back.target = u

\* the statement of C33 on graphs whose edges all have their reverse
C33_WellFormedOnPairedEdges ==
    EdgesPaired => C33_BidirectionalPathIsWellFormed

====
